---- MODULE Spec2Model ----
(***************************************************************************)
(* Event plots generator (custom_plugins/event_plots/event_plots.py).      *)
(*                                                                         *)
(* The generator reads a race-timing data source (pilots, heats, races,    *)
(* pilot-runs, laps, class results) and builds the pilot table, the        *)
(* consecutive-window table and the lap table a chart is drawn from.  The  *)
(* only state that outlives a call is the heat-resolution cache            *)
(* (_race_cache, an OrderedDict race id -> heat id).                       *)
(*                                                                         *)
(* Python exceptions are modelled as values: an operator that can raise    *)
(* returns a record with a field raised.                                   *)
(***************************************************************************)
EXTENDS Integers, Sequences, FiniteSets, TLC

VARIABLES
    races,       \* data source: race id -> race record (race_by_id)
    db,          \* data source: everything else rhapi.db serves
    race_cache,  \* EventPlotsGenerator._race_cache, oldest entry first
    last,        \* the latest _get_race_heat_id call and what it did
    recency,     \* race ids in order of their latest lookup, oldest first
    evicted,     \* race ids that were put out of the cache at some time
    win,         \* the latest _get_win_condition call: argument, faults, result
    lap,         \* the latest _extract_lap_data call: arguments, faults, lap table
    gen,         \* the latest generate_plot call: argument, faults, outcome
    cons,        \* the latest _extract_consecutive_data call: argument, table
    pil,         \* the latest _extract_pilot_data call: argument, faults, pilot table
    plot         \* the latest _generate_plot call: arguments, faults, figure

vars == <<races, db, race_cache, last, recency, evicted, win, lap, gen, cons, pil, plot>>

----------------------------------------------------------------------------
(* Bounds of the model.                                                    *)

\* race ids are 1..MaxRaces
MaxRaces == 3
\* heat ids are 1..MaxHeats (0 is the "no heat" default of the code)
MaxHeats == 2

\* self._max_cache_size: 1000 in the source, scaled down so that the cache
\* fills and evicts within MaxRaces race ids.
MaxCacheSize == 2

RaceIds == 1..MaxRaces
HeatIds == 1..MaxHeats

----------------------------------------------------------------------------
(* Sequence helpers.                                                       *)

RECURSIVE SeqRemove(_, _)
\* s without its elements satisfying key = k (OrderedDict: at most one)
SeqRemove(s, k) ==
    IF s = <<>> THEN <<>>
    ELSE IF Head(s).race_id = k THEN SeqRemove(Tail(s), k)
    ELSE <<Head(s)>> \o SeqRemove(Tail(s), k)

RECURSIVE WithoutId(_, _)
WithoutId(s, k) ==
    IF s = <<>> THEN <<>>
    ELSE IF Head(s) = k THEN WithoutId(Tail(s), k)
    ELSE <<Head(s)>> \o WithoutId(Tail(s), k)

----------------------------------------------------------------------------
(* The heat-resolution cache: EventPlotsGenerator._get_race_heat_id.       *)

\* data source: a race that race_by_id does not find
NoRace == [present |-> FALSE, heat_id |-> 0, round |-> 0]

\* keys of the OrderedDict
CacheKeys(cache) == {cache[i].race_id : i \in 1..Len(cache)}

\* cache[race_id]
CacheGet(cache, race_id) ==
    LET i == CHOOSE j \in 1..Len(cache) : cache[j].race_id = race_id
    IN  cache[i].heat_id

\* a hit that returns the entry but leaves it in its place (FIFO eviction)
MoveToEnd_NoTouch(cache, race_id) == cache

\* OrderedDict.move_to_end(race_id)
MoveToEnd(cache, race_id) ==
    SeqRemove(cache, race_id) \o <<[race_id |-> race_id, heat_id |-> CacheGet(cache, race_id)]>>

\* an insertion that never puts an entry out
CacheInsert_NoEviction(cache, race_id, heat_id) ==
    Append(cache, [race_id |-> race_id, heat_id |-> heat_id])

\* OrderedDict.popitem(last=False) when the cache is full, then
\* cache[race_id] = heat_id; move_to_end(race_id)
CacheInsert(cache, race_id, heat_id) ==
    LET room == IF Len(cache) >= MaxCacheSize THEN Tail(cache) ELSE cache
    IN  room \o <<[race_id |-> race_id, heat_id |-> heat_id]>>

\* race.heat_id if race else 0, for the race rhapi.db.race_by_id returns
RaceHeat(race) == IF race.present THEN race.heat_id ELSE 0

\* _get_race_heat_id(lap) for lap.race_id = race_id; fail: race_by_id raises.
\* The result: the cache afterwards, the heat id returned, and whether the
\* data source was queried.
GetRaceHeatId(cache, race_by_id, race_id, fail) ==
    IF race_id \notin CacheKeys(cache)
    THEN LET heat_id == IF fail THEN 0 ELSE RaceHeat(race_by_id[race_id])
             c2 == CacheInsert(cache, race_id, heat_id)
         IN  [cache |-> c2, ret |-> CacheGet(c2, race_id), queried |-> TRUE]
    ELSE LET c2 == MoveToEnd(cache, race_id)
         IN  [cache |-> c2, ret |-> CacheGet(c2, race_id), queried |-> FALSE]

----------------------------------------------------------------------------
(* Specification SpecCache: heat lookups against a changing data source.   *)

\* a variable the specification at hand does not use
NoDb == [unused |-> TRUE]
NoCall == [unused |-> TRUE]

NoLookup ==
    [tick |-> FALSE, race_id |-> 0, ret |-> 0, queried |-> FALSE,
     failed |-> FALSE, recorded |-> 0, resident |-> FALSE, readmit |-> FALSE]

\* a saved race: the heat it was run in is fixed when it is saved
SavedRace(race_id) ==
    [present |-> TRUE, heat_id |-> ((race_id - 1) % MaxHeats) + 1, round |-> 0]

InitCache ==
    /\ races \in [RaceIds -> {NoRace}] \cup {[r \in RaceIds |-> SavedRace(r)]}
    /\ race_cache = <<>>
    /\ last = NoLookup
    /\ recency = <<>>
    /\ evicted = {}
    /\ db = NoDb
    /\ win = NoCall
    /\ lap = NoCall
    /\ gen = NoCall
    /\ cons = NoCall
    /\ pil = NoCall
    /\ plot = NoCall

\* one call of _get_race_heat_id
Lookup(race_id, fail) ==
    LET r == GetRaceHeatId(race_cache, races, race_id, fail) IN
    /\ race_cache' = r.cache
    /\ last' = [tick |-> ~last.tick, race_id |-> race_id, ret |-> r.ret,
                queried |-> r.queried, failed |-> fail,
                recorded |-> RaceHeat(races[race_id]),
                resident |-> race_id \in CacheKeys(race_cache),
                readmit |-> race_id \in evicted]
    /\ recency' = WithoutId(recency, race_id) \o <<race_id>>
    /\ evicted' = evicted \cup (CacheKeys(race_cache) \ CacheKeys(r.cache))
    /\ UNCHANGED <<races, db, win, lap, gen, cons, pil, plot>>

LookupStep == \E race_id \in RaceIds, fail \in BOOLEAN : Lookup(race_id, fail)

\* the data source changes between lookups: a race is saved or removed
DataSourceChange ==
    /\ \E race_id \in RaceIds :
         races' = [races EXCEPT ![race_id] =
                      IF races[race_id].present THEN NoRace ELSE SavedRace(race_id)]
    /\ UNCHANGED <<db, race_cache, last, recency, evicted, win, lap, gen, cons, pil, plot>>

NextCache == LookupStep \/ DataSourceChange

SpecCache == InitCache /\ [][NextCache]_vars

\* the resident race id whose latest lookup is the oldest
RECURSIVE LeastRecentlyUsed(_, _)
LeastRecentlyUsed(order, keys) ==
    IF order = <<>> THEN 0
    ELSE IF Head(order) \in keys THEN Head(order)
    ELSE LeastRecentlyUsed(Tail(order), keys)

\* C6: with capacity MaxCacheSize, a lookup of a resident race id returns the
\* stored heat id without querying the data source, leaves the other entries
\* alone and makes the entry the most recently used; a lookup of a race id
\* that is not resident (never seen, or evicted before) queries the data
\* source; and when the cache is full that lookup evicts exactly the resident
\* race id whose latest lookup, hit or miss, is the oldest.
C6_LruCache ==
    [][last'.tick # last.tick =>
        LET r == last'.race_id
            keys == CacheKeys(race_cache)
            keys2 == CacheKeys(race_cache')
        IN  /\ r \in keys =>
                  /\ ~last'.queried
                  /\ last'.ret = CacheGet(race_cache, r)
                  /\ keys2 = keys
                  /\ \A k \in keys : CacheGet(race_cache', k) = CacheGet(race_cache, k)
                  /\ race_cache'[Len(race_cache')].race_id = r
            /\ r \notin keys =>
                  /\ last'.queried
                  /\ race_cache'[Len(race_cache')].race_id = r
                  /\ IF Cardinality(keys) >= MaxCacheSize
                     THEN keys2 = (keys \ {LeastRecentlyUsed(recency, keys)}) \cup {r}
                     ELSE keys2 = keys \cup {r}
    ]_vars

\* C6 witness: the cache is full, a hit has reordered it, and a race id that
\* was evicted earlier is looked up again and resolved from the data source.
C6_Witness ==
    /\ last.queried /\ last.readmit
    /\ Len(race_cache) = MaxCacheSize
    /\ Len(recency) > MaxCacheSize
    /\ \E i \in 1..Len(race_cache) : race_cache[i].race_id \notin evicted

\* C7: the heat id a lookup returns is the heat id the data source records
\* for the race at the time of the lookup (0 when the race is absent),
\* resident or not, for every lookup that does not itself fail.
C7_CacheTransparent ==
    (last.race_id # 0 /\ ~last.failed) => last.ret = last.recorded

----------------------------------------------------------------------------
(* Faults: the data-source accesses that raise during one call.  A fault   *)
(* names the operation that makes the access (phase), the access (site)    *)
(* and, for per-run and per-lap accesses, the run id and the lap index.    *)

FaultAt(phase, site, run, lap_idx) ==
    [phase |-> phase, site |-> site, run |-> run, lap |-> lap_idx]

\* a fault of _get_win_condition
Fault(site) == FaultAt("win", site, 0, 0)

----------------------------------------------------------------------------
(* The scoring rule: EventPlotsGenerator._get_win_condition.               *)

\* the largest scoring-rule value a race format holds in the model
MaxWinValue == 6

\* how a race class refers to its race format: each of the attributes
\* format_id, raceformat and format is absent, leads to nothing, or leads to
\* the format
RefKinds == {"absent", "nothing", "format"}

\* the race formats of the data source: has_win_condition is
\* hasattr(raceformat, 'win_condition'); convertible is whether
\* int(raceformat.win_condition) succeeds, and then gives win_condition
RaceFormats ==
    {[has_win_condition |-> FALSE, convertible |-> FALSE, win_condition |-> 0]}
    \cup {[has_win_condition |-> TRUE, convertible |-> FALSE, win_condition |-> 0]}
    \cup {[has_win_condition |-> TRUE, convertible |-> TRUE, win_condition |-> n] :
             n \in 0..MaxWinValue}

\* what rhapi.db.raceclass_results(raceclass) returns: nothing, results
\* without a 'by_consecutives' section, or results with one
ResultKinds == {"nothing", "no_consecutives", "by_consecutives"}

\* lines 87-98: the race format reached from the race class, "format" when
\* one is reached; a raising raceformat_by_id is logged and leaves None
RaceFormatRef(raceclass, faults) ==
    IF raceclass.format_id # "absent"
    THEN IF Fault("raceformat_by_id") \in faults THEN "nothing" ELSE raceclass.format_id
    ELSE IF raceclass.raceformat # "absent" THEN raceclass.raceformat
    ELSE IF raceclass.format # "absent" THEN raceclass.format
    ELSE "nothing"

\* a fallback that never consults the class results
WinConditionTry_NoFallback(raceclass, d, faults) ==
    LET raceformat == RaceFormatRef(raceclass, faults)
    IN  IF raceformat = "format" /\ d.raceformat.has_win_condition
        THEN IF d.raceformat.convertible
             THEN [raised |-> FALSE, returned |-> TRUE, value |-> d.raceformat.win_condition]
             ELSE [raised |-> TRUE, returned |-> FALSE, value |-> 0]
        ELSE [raised |-> FALSE, returned |-> FALSE, value |-> 0]

\* lines 79-117, the body of the try block: raised when an exception leaves
\* it, returned when a return statement ends it
WinConditionTry(raceclass, d, faults) ==
    LET raceformat == RaceFormatRef(raceclass, faults)
        fallback ==
            IF Fault("raceclass_results") \in faults
            THEN [raised |-> TRUE, returned |-> FALSE, value |-> 0]
            ELSE IF d.results = "by_consecutives"
            THEN [raised |-> FALSE, returned |-> TRUE, value |-> 4]
            ELSE [raised |-> FALSE, returned |-> FALSE, value |-> 0]
    IN  IF raceformat = "format" /\ d.raceformat.has_win_condition
        THEN IF d.raceformat.convertible
             THEN [raised |-> FALSE, returned |-> TRUE, value |-> d.raceformat.win_condition]
             ELSE [raised |-> TRUE, returned |-> FALSE, value |-> 0]
        ELSE fallback

\* an except clause that is missing: the exception reaches the caller
WinConditionCatch_Propagate(t) ==
    IF t.raised THEN [raised |-> TRUE, value |-> 0]
    ELSE IF t.returned THEN [raised |-> FALSE, value |-> t.value]
    ELSE [raised |-> FALSE, value |-> 0]

\* lines 118-123: except Exception logs, and the default 0 is returned
WinConditionCatch(t) ==
    IF t.raised THEN [raised |-> FALSE, value |-> 0]
    ELSE IF t.returned THEN [raised |-> FALSE, value |-> t.value]
    ELSE [raised |-> FALSE, value |-> 0]

\* _get_win_condition(raceclass)
GetWinCondition(raceclass, d, faults) ==
    WinConditionCatch(WinConditionTry(raceclass, d, faults))

----------------------------------------------------------------------------
(* Specification SpecWin: _get_win_condition on every race class, race     *)
(* format and class result of the model, with and without faults.          *)

WinFaults == SUBSET {Fault("raceformat_by_id"), Fault("raceclass_results")}

CacheUnused ==
    /\ races = [r \in RaceIds |-> NoRace]
    /\ race_cache = <<>>
    /\ last = NoLookup
    /\ recency = <<>>
    /\ evicted = {}

InitWin ==
    /\ CacheUnused
    /\ lap = NoCall
    /\ gen = NoCall
    /\ cons = NoCall
    /\ pil = NoCall
    /\ plot = NoCall
    /\ db \in [raceformat : RaceFormats, results : ResultKinds]
    /\ win \in [raceclass : [format_id : RefKinds, raceformat : RefKinds, format : RefKinds],
                faults : {{}}, called : {FALSE}, out : {[raised |-> FALSE, value |-> 0]}]

\* one call of _get_win_condition
CallGetWinCondition ==
    /\ \E faults \in WinFaults :
         win' = [win EXCEPT !.faults = faults, !.called = TRUE,
                            !.out = GetWinCondition(win.raceclass, db, faults)]
    /\ UNCHANGED <<races, db, race_cache, last, recency, evicted, lap, gen, cons, pil, plot>>

NextWin == CallGetWinCondition

SpecWin == InitWin /\ [][NextWin]_vars

\* the race format the class leads to, ignoring faults
WinFormatReached ==
    RaceFormatRef(win.raceclass, {}) = "format"

\* the scoring rule can be read: the format is reached, has a win_condition,
\* and the lookup and the conversion succeed
WinRuleReadable ==
    /\ WinFormatReached
    /\ win.raceclass.format_id # "absent" => Fault("raceformat_by_id") \notin win.faults
    /\ db.raceformat.has_win_condition
    /\ db.raceformat.convertible

\* the three cases of an unreadable rule the claim names: no format
\* reference, a reference that yields nothing, a format without win_condition
WinRuleMissing ==
    \/ ~WinFormatReached
    \/ ~db.raceformat.has_win_condition

\* the class results are read and hold a 'by_consecutives' section
WinHasConsecutives ==
    /\ Fault("raceclass_results") \notin win.faults
    /\ db.results = "by_consecutives"

\* the lookup of the race format raises in this call
WinLookupFails ==
    win.raceclass.format_id # "absent" /\ Fault("raceformat_by_id") \in win.faults

\* the conversion int(raceformat.win_condition) raises in this call
WinConversionFails ==
    /\ WinFormatReached /\ ~WinLookupFails
    /\ db.raceformat.has_win_condition /\ ~db.raceformat.convertible

\* reading the class results raises in this call (it is read only when the
\* rule of the format was not returned)
WinResultsFail ==
    /\ Fault("raceclass_results") \in win.faults
    /\ ~WinRuleReadable /\ ~WinConversionFails

\* C9: _get_win_condition returns the scoring rule of the class's race
\* format when it can be read; when the class has no format reference, the
\* reference yields nothing or the format has no win_condition, it returns
\* 4 if the class results hold a 'by_consecutives' section and 0 otherwise.
C9_WinCondition ==
    win.called =>
        /\ ~win.out.raised
        /\ WinRuleReadable => win.out.value = db.raceformat.win_condition
        /\ WinRuleMissing => win.out.value = IF WinHasConsecutives THEN 4 ELSE 0

\* C9 witness: a class whose format reference yields nothing is resolved to
\* 4 from the 'by_consecutives' section of the class results.
C9_Witness ==
    /\ win.called /\ win.raceclass.format_id = "nothing"
    /\ WinHasConsecutives /\ win.out.value = 4

\* C10 as stated: whenever any access fails (the format lookup, the
\* conversion of the rule, reading the class results), 0 is returned.
C10_AnyFailureGivesZero ==
    (win.called /\ (WinLookupFails \/ WinConversionFails \/ WinResultsFail)) =>
        (~win.out.raised /\ win.out.value = 0)

\* C10 amended: _get_win_condition never raises; a failed conversion of the
\* rule or a failed read of the class results returns 0; a failed lookup of
\* the race format is absorbed and the class results decide, 4 with a
\* 'by_consecutives' section and 0 without.
C10_NeverRaises ==
    win.called =>
        /\ ~win.out.raised
        /\ (WinConversionFails \/ WinResultsFail) => win.out.value = 0
        /\ WinLookupFails => win.out.value = IF WinHasConsecutives THEN 4 ELSE 0

\* C10 witness: the rule of the format does not convert, the class results
\* hold a 'by_consecutives' section, and 0 is returned.
C10_Witness ==
    /\ win.called /\ WinConversionFails /\ db.results = "by_consecutives"
    /\ win.out.value = 0 /\ ~win.out.raised

----------------------------------------------------------------------------
(* The data source as the extraction reads it.                             *)
(*   db.heats      heat id -> id of the class the heat belongs to          *)
(*   db.pilotruns  the pilot-runs in arrival order, each with its id, its  *)
(*                 pilot id (0: unassigned), the race id its laps carry    *)
(*                 and its laps as laps_by_pilotrun returns them           *)
(*   a lap         deleted (0 or 1) and the lap time its formatted string  *)
(*                 parses to                                               *)

\* lines 188-223: _get_class_heat_ids; a raising rhapi.db.heats is logged
\* and leaves the set empty
GetClassHeatIds(class_id, d, faults, phase) ==
    IF FaultAt(phase, "heats", 0, 0) \in faults THEN {}
    ELSE {h \in DOMAIN d.heats : d.heats[h] = class_id}

\* lines 238-251: the loop of _build_pilotrun_heat_map from run i on;
\* acc.map holds [run, pilot_id, heat] in insertion order
RECURSIVE BuildMapFrom(_, _, _, _, _, _, _)
BuildMapFrom(runs, i, class_heat_ids, race_by_id, faults, phase, acc) ==
    IF i > Len(runs) THEN acc
    ELSE LET run == runs[i]
             skip == BuildMapFrom(runs, i + 1, class_heat_ids, race_by_id, faults, phase, acc)
         IN  IF run.pilot_id = 0 THEN skip
             ELSE IF FaultAt(phase, "laps", run.id, 0) \in faults THEN skip
             ELSE IF run.laps = <<>> THEN skip
             ELSE LET g == GetRaceHeatId(acc.cache, race_by_id, run.race_id,
                                         FaultAt(phase, "race", run.id, 0) \in faults)
                      keep == class_heat_ids = {} \/ g.ret \in class_heat_ids
                      entry == [run |-> run.id, pilot_id |-> run.pilot_id, heat |-> g.ret]
                  IN  BuildMapFrom(runs, i + 1, class_heat_ids, race_by_id, faults, phase,
                                   [map |-> IF keep THEN Append(acc.map, entry) ELSE acc.map,
                                    cache |-> g.cache])

\* _build_pilotrun_heat_map(class_heat_ids); a raising rhapi.db.pilotruns
\* is logged and leaves the map empty
BuildPilotrunHeatMap(class_heat_ids, d, race_by_id, cache, faults, phase) ==
    IF FaultAt(phase, "pilotruns", 0, 0) \in faults
    THEN [map |-> <<>>, cache |-> cache]
    ELSE BuildMapFrom(d.pilotruns, 1, class_heat_ids, race_by_id, faults, phase,
                      [map |-> <<>>, cache |-> cache])

\* a round lookup that never finds a round
GetRoundNumber_NotFound(race_by_id, run, faults) == 0

\* lines 430-496: _get_round_number; the round the race record carries, 0
\* when the race is not found, carries none, or race_by_id raises
GetRoundNumber(race_by_id, run, faults) ==
    IF FaultAt("loop", "round", run.id, 0) \in faults THEN 0
    ELSE IF race_by_id[run.race_id].present THEN race_by_id[run.race_id].round
    ELSE 0

\* an actual_round without the fallback to the position of the run
ActualRound_NoFallback(resolved, round_idx) == resolved

\* lines 598-600: actual_round, the resolved round or, when that is 0, the
\* 1-indexed position of the run among the runs of the pilot
ActualRound(resolved, round_idx) == IF resolved = 0 THEN round_idx + 1 ELSE resolved

\* lines 535-542: the keys of pilot_runs, in order of first insertion
RECURSIVE PilotOrder(_, _)
PilotOrder(entries, seen) ==
    IF entries = <<>> THEN <<>>
    ELSE IF Head(entries).pilot_id \in seen THEN PilotOrder(Tail(entries), seen)
    ELSE <<Head(entries).pilot_id>> \o PilotOrder(Tail(entries), seen \cup {Head(entries).pilot_id})

\* lines 570, 589: the (pilot, round_idx, run) triples in the order the
\* nested loops visit them
RECURSIVE WorkList(_, _)
WorkList(entries, pilots) ==
    IF pilots = <<>> THEN <<>>
    ELSE LET mine == SelectSeq(entries, LAMBDA e : e.pilot_id = Head(pilots))
         IN  [k \in 1..Len(mine) |->
                 [pilot_id |-> Head(pilots), round_idx |-> k - 1, run |-> mine[k].run]]
             \o WorkList(entries, Tail(pilots))

\* lines 577-586: the consecutive window of the pilot, from the first row
\* of consecutive_df with its id (lines 549-567 make the column names those
\* of the table, so the columns are always found)
PilotWindow(win_condition, consecutive_df, pilot_id) ==
    LET rows == IF consecutive_df.present THEN consecutive_df.rows ELSE <<>>
        mine == SelectSeq(rows, LAMBDA r : r.pilot_id = pilot_id)
    IN  IF win_condition = 4 /\ mine # <<>>
        THEN [found |-> TRUE, round |-> mine[1].round, start |-> mine[1].lap,
              nlaps |-> mine[1].nlaps]
        ELSE [found |-> FALSE, round |-> 0, start |-> 0, nlaps |-> 0]

\* lines 619-624 without the remap of a reported start 0
AdjustedStartLap_NoRemap(start) == start

\* lines 619-624: adjusted_start_lap
AdjustedStartLap(start) == IF start = 0 THEN 1 ELSE start

\* a best_q whose window has no upper end
BestQ_OpenEnded(win_condition, window, actual_round, lap_idx) ==
    IF /\ win_condition = 4 /\ window.found
       /\ actual_round = window.round
       /\ lap_idx > 0
       /\ lap_idx >= AdjustedStartLap(window.start)
    THEN 1 ELSE 0

\* lines 611-629: best_q of the lap at lap_idx
BestQ(win_condition, window, actual_round, lap_idx) ==
    IF /\ win_condition = 4 /\ window.found
       /\ actual_round = window.round
       /\ lap_idx > 0
       /\ lap_idx >= AdjustedStartLap(window.start)
       /\ lap_idx < AdjustedStartLap(window.start) + window.nlaps
    THEN 1 ELSE 0

\* lines 603-642: the records of one run, one per lap that is not deleted;
\* run is kept with the record to tell the runs of a pilot apart
LapRows(run, heat_id, actual_round, win_condition, window, faults) ==
    LET all == [k \in 1..Len(run.laps) |->
                   [pilot_id |-> run.pilot_id, heat |-> heat_id,
                    time |-> IF FaultAt("loop", "parse", run.id, k - 1) \in faults
                             THEN 0 ELSE run.laps[k].time,
                    round |-> actual_round, lap |-> k - 1,
                    best_q |-> BestQ(win_condition, window, actual_round, k - 1),
                    fastest |-> 0, run |-> run.id,
                    deleted |-> run.laps[k].deleted]]
        kept == SelectSeq(all, LAMBDA r : r.deleted = 0)
    IN  [k \in 1..Len(kept) |->
            [pilot_id |-> kept[k].pilot_id, heat |-> kept[k].heat, time |-> kept[k].time,
             round |-> kept[k].round, lap |-> kept[k].lap, best_q |-> kept[k].best_q,
             fastest |-> 0, run |-> kept[k].run]]

\* lines 570-642: the loops over pilots, runs and laps from work item k on;
\* raised: an exception left the loops (a raising laps_by_pilotrun at line
\* 590, a lap field that cannot be read at lines 604-607)
RECURSIVE LoopFrom(_, _, _, _, _, _, _, _, _)
LoopFrom(work, k, d, race_by_id, pilot_df, win_condition, consecutive_df, faults, acc) ==
    IF k > Len(work) \/ acc.raised THEN acc
    ELSE LET w == work[k]
             run == d.pilotruns[w.run]
             skip == LoopFrom(work, k + 1, d, race_by_id, pilot_df, win_condition,
                              consecutive_df, faults, acc)
         IN  IF \A j \in 1..Len(pilot_df) : pilot_df[j] # w.pilot_id THEN skip
             ELSE IF FaultAt("loop", "laps", run.id, 0) \in faults
             THEN [acc EXCEPT !.raised = TRUE]
             ELSE IF run.laps = <<>> THEN skip
             ELSE LET g == GetRaceHeatId(acc.cache, race_by_id, run.race_id,
                                         FaultAt("loop", "race", run.id, 0) \in faults)
                      resolved == GetRoundNumber(race_by_id, run, faults)
                      actual_round == ActualRound(resolved, w.round_idx)
                      window == PilotWindow(win_condition, consecutive_df, w.pilot_id)
                      bad == \E i \in 0..(Len(run.laps) - 1) :
                                 FaultAt("loop", "field", run.id, i) \in faults
                  IN  LoopFrom(work, k + 1, d, race_by_id, pilot_df, win_condition,
                               consecutive_df, faults,
                               [rows |-> acc.rows \o LapRows(run, g.ret, actual_round,
                                                             win_condition, window, faults),
                                cache |-> g.cache, raised |-> bad])

\* the smallest element of a non-empty set of numbers
SetMin(S) == CHOOSE x \in S : \A y \in S : x <= y

\* a marking that flags one fastest lap per pilot only
MarkFastest_FirstOnly(win_condition, rows) ==
    IF win_condition # 3 THEN rows
    ELSE [k \in 1..Len(rows) |->
            LET mine == {j \in 1..Len(rows) : rows[j].pilot_id = rows[k].pilot_id /\ rows[j].lap > 0}
                best == SetMin({rows[j].time : j \in mine})
            IN  IF rows[k].lap > 0 /\ rows[k].time = best
                   /\ \A j \in mine : rows[j].time = best => k <= j
                THEN [rows[k] EXCEPT !.fastest = 1] ELSE rows[k]]

\* lines 651-660: the fastest-lap flags for win condition 3
MarkFastest(win_condition, rows) ==
    IF win_condition # 3 THEN rows
    ELSE [k \in 1..Len(rows) |->
            LET mine == {j \in 1..Len(rows) : rows[j].pilot_id = rows[k].pilot_id /\ rows[j].lap > 0}
            IN  IF rows[k].lap > 0 /\ rows[k].time = SetMin({rows[j].time : j \in mine})
                THEN [rows[k] EXCEPT !.fastest = 1] ELSE rows[k]]

\* a lap extraction that keeps every run of the heat map, whatever its heat
ExtractLapData_NoClassFilter(class_id, win_condition, pilot_df, consecutive_df, d, race_by_id, cache, faults) ==
    IF pilot_df = <<>> THEN [lap_df |-> <<>>, cache |-> cache]
    ELSE LET class_heat_ids == GetClassHeatIds(class_id, d, faults, "lap")
             m == BuildPilotrunHeatMap(class_heat_ids, d, race_by_id, cache, faults, "lap")
             work == WorkList(m.map, PilotOrder(m.map, {}))
             r == LoopFrom(work, 1, d, race_by_id, pilot_df, win_condition, consecutive_df,
                           faults, [rows |-> <<>>, cache |-> m.cache, raised |-> FALSE])
         IN  IF r.raised THEN [lap_df |-> <<>>, cache |-> r.cache]
             ELSE [lap_df |-> MarkFastest(win_condition, r.rows), cache |-> r.cache]

\* _extract_lap_data(raceclass, win_condition, pilot_df, consecutive_df):
\* the lap table and the cache afterwards
ExtractLapData(class_id, win_condition, pilot_df, consecutive_df, d, race_by_id, cache, faults) ==
    IF pilot_df = <<>> THEN [lap_df |-> <<>>, cache |-> cache]
    ELSE LET class_heat_ids == GetClassHeatIds(class_id, d, faults, "lap")
             m == BuildPilotrunHeatMap(class_heat_ids, d, race_by_id, cache, faults, "lap")
             entries == SelectSeq(m.map, LAMBDA e : e.heat \in class_heat_ids)
             work == WorkList(entries, PilotOrder(entries, {}))
             r == LoopFrom(work, 1, d, race_by_id, pilot_df, win_condition, consecutive_df,
                           faults, [rows |-> <<>>, cache |-> m.cache, raised |-> FALSE])
         IN  IF r.raised THEN [lap_df |-> <<>>, cache |-> r.cache]
             ELSE [lap_df |-> MarkFastest(win_condition, r.rows), cache |-> r.cache]

----------------------------------------------------------------------------
(* Specification SpecLap: _extract_lap_data on the data sources below.     *)
(* Two pilot-runs arrive in order, run i with the laps of race i; the      *)
(* first is flown by pilot 1, the second by pilot 1 or 2.  Heat 1 belongs  *)
(* to the requested class 1, every other heat to class 2.  Four families   *)
(* of inputs are drawn:                                                    *)
(*   "window"  win condition 4; the lap count and one deleted lap of run   *)
(*             1, the rounds and the consecutive window of pilot 1 vary    *)
(*   "time"    every win condition; the lap times of both runs and the     *)
(*             deleted flags of run 1 vary                                 *)
(*   "fault"   the heats of the races vary and one access of the call      *)
(*             may raise                                                   *)
(*   "evict"   one run more than the cache holds, each with the laps of a  *)
(*             race of its own in heat 1; one access of the call may raise *)

\* a run has at most MaxLaps laps (lap indices 0..MaxLaps-1)
MaxLaps == 3
\* the rounds a race record carries are 1..MaxRound (0: none)
MaxRound == 2

\* the class a plot is asked for
TheClass == [id |-> "valid", class_id |-> 1]

HeatClass == [h \in HeatIds |-> IF h = 1 THEN 1 ELSE 2]

\* the sequences over S of length 0..n
RECURSIVE SeqsUpTo(_, _)
SeqsUpTo(S, n) ==
    IF n = 0 THEN {<<>>}
    ELSE LET shorter == SeqsUpTo(S, n - 1)
         IN  shorter \cup {Append(s, x) : s \in {t \in shorter : Len(t) = n - 1}, x \in S}

Lap(deleted, time) == [deleted |-> deleted, time |-> time]

\* n laps of time 1, the lap at index del (if any) deleted
PlainLaps(n, del) == [k \in 1..n |-> Lap(IF k - 1 = del THEN 1 ELSE 0, 1)]

PilotRun(id, pilot_id, laps) ==
    [id |-> id, pilot_id |-> pilot_id, race_id |-> id, laps |-> laps]

\* races 1 and 2 saved with the given heats and rounds, the others absent
RacesOf(heat1, round1, heat2, round2) ==
    [r \in RaceIds |->
        IF r = 1 THEN [present |-> TRUE, heat_id |-> heat1, round |-> round1]
        ELSE IF r = 2 THEN [present |-> TRUE, heat_id |-> heat2, round |-> round2]
        ELSE NoRace]

\* a consecutive table of base n: the window of pilot 1, and no lap for
\* pilot 2 (lines 399-405: an all-zero row)
ConsecutiveDf(n, round, start, nlaps) ==
    [present |-> TRUE, base |-> n,
     rows |-> <<[pilot_id |-> 1, time |-> 1, round |-> round, lap |-> start, nlaps |-> nlaps],
                [pilot_id |-> 2, time |-> 0, round |-> 0, lap |-> 0, nlaps |-> 0]>>]

NoConsecutiveDf == [present |-> FALSE, base |-> 0, rows |-> <<>>]

LapCall(scenario, win_condition, consecutive_df) ==
    [scenario |-> scenario, raceclass |-> TheClass, win_condition |-> win_condition,
     pilot_df |-> <<1, 2>>, consecutive_df |-> consecutive_df,
     faults |-> {}, called |-> FALSE, out |-> <<>>]

LapCommonInit ==
    /\ race_cache = <<>>
    /\ last = NoLookup
    /\ recency = <<>>
    /\ evicted = {}
    /\ win = NoCall
    /\ gen = NoCall
    /\ cons = NoCall
    /\ pil = NoCall
    /\ plot = NoCall

InitLapWindow ==
    /\ LapCommonInit
    /\ \E n1 \in 1..MaxLaps, del \in 0..MaxLaps, p2 \in {1, 2} :
         db = [heats |-> HeatClass,
               pilotruns |-> <<PilotRun(1, 1, PlainLaps(n1, del)),
                               PilotRun(2, p2, PlainLaps(MaxLaps, MaxLaps))>>]
    /\ \E r1 \in 0..MaxRound, r2 \in 0..MaxRound : races = RacesOf(1, r1, 1, r2)
    /\ \E round \in 0..MaxRound, start \in 0..(MaxLaps - 1), nlaps \in 0..MaxLaps :
         lap = LapCall("window", 4, ConsecutiveDf(MaxLaps, round, start, nlaps))

LapKinds == {Lap(0, 1), Lap(0, 2), Lap(1, 1)}

InitLapTime ==
    /\ LapCommonInit
    /\ \E laps1 \in SeqsUpTo(LapKinds, MaxLaps),
          laps2 \in SeqsUpTo({Lap(0, 1), Lap(0, 2)}, MaxLaps), p2 \in {1, 2} :
         db = [heats |-> HeatClass,
               pilotruns |-> <<PilotRun(1, 1, laps1), PilotRun(2, p2, laps2)>>]
    /\ races = RacesOf(1, 0, 1, 0)
    /\ \E win_condition \in 0..5 :
         lap = LapCall("time", win_condition, ConsecutiveDf(MaxLaps, 1, 0, 2))

InitLapFault ==
    /\ LapCommonInit
    /\ \E p2 \in {1, 2}, n2 \in 1..2 :
         db = [heats |-> HeatClass,
               pilotruns |-> <<PilotRun(1, 1, <<Lap(0, 2), Lap(0, 1)>>),
                               PilotRun(2, p2, PlainLaps(n2, MaxLaps))>>]
    /\ \E h1 \in HeatIds, h2 \in HeatIds : races = RacesOf(h1, 0, h2, 1)
    /\ \E win_condition \in {0, 3, 4} :
         lap = LapCall("fault", win_condition, ConsecutiveDf(MaxLaps, 1, 1, 1))

\* MaxCacheSize + 1 runs, run i with the laps of race i
InitLapEvict ==
    /\ LapCommonInit
    /\ \E p \in {1, 2}, n \in 1..2 :
         db = [heats |-> HeatClass,
               pilotruns |-> [i \in 1..(MaxCacheSize + 1) |->
                                 PilotRun(i, IF i = 1 THEN 1 ELSE p, PlainLaps(n, MaxLaps))]]
    /\ races = [r \in RaceIds |->
                   IF r <= MaxCacheSize + 1
                   THEN [present |-> TRUE, heat_id |-> 1, round |-> 0] ELSE NoRace]
    /\ \E win_condition \in {0, 4} :
         lap = LapCall("evict", win_condition, ConsecutiveDf(MaxLaps, 1, 1, 1))

InitLap == InitLapWindow \/ InitLapTime \/ InitLapFault \/ InitLapEvict

\* the accesses of one _extract_lap_data call that can raise
LapFaultSites ==
    {FaultAt("lap", site, 0, 0) : site \in {"heats", "pilotruns"}}
    \cup {FaultAt("lap", site, run, 0) : site \in {"laps", "race"}, run \in {1, 2}}
    \cup {FaultAt("loop", site, run, 0) : site \in {"laps", "race", "round"}, run \in {1, 2}}
    \cup {FaultAt("loop", site, run, i) : site \in {"field", "parse"}, run \in {1, 2}, i \in 0..1}

\* at most one access raises in a call of the "fault" and "evict" families,
\* none elsewhere
LapFaults(scenario) ==
    IF scenario \in {"fault", "evict"} THEN {{}} \cup {{f} : f \in LapFaultSites} ELSE {{}}

\* one call of _extract_lap_data
CallExtractLapData ==
    /\ \E faults \in LapFaults(lap.scenario) :
         LET r == ExtractLapData(lap.raceclass.class_id, lap.win_condition, lap.pilot_df,
                                 lap.consecutive_df, db, races, race_cache, faults)
         IN  /\ lap' = [lap EXCEPT !.faults = faults, !.called = TRUE, !.out = r.lap_df]
             /\ race_cache' = r.cache
    /\ UNCHANGED <<races, db, last, recency, evicted, win, gen, cons, pil, plot>>

NextLap == CallExtractLapData

SpecLap == InitLap /\ [][NextLap]_vars

\* the lap table of the latest call
LapRowsOut == {lap.out[k] : k \in 1..Len(lap.out)}

\* the row of the consecutive table for a pilot (one per pilot here)
WindowOf(pilot_id) ==
    CHOOSE r \in {lap.consecutive_df.rows[k] : k \in 1..Len(lap.consecutive_df.rows)} :
        r.pilot_id = pilot_id

\* C4 as stated: with win condition 4 and a window of round R, reported
\* start S and size N, a lap record is flagged best-consecutive if and only
\* if its lap index is in [S, S+N), is greater than 0, and its round is R.
C4_WindowAsReported ==
    (lap.called /\ lap.win_condition = 4) =>
        \A r \in LapRowsOut :
            LET w == WindowOf(r.pilot_id)
            IN  r.best_q = 1 <=>
                    /\ r.lap >= w.lap /\ r.lap < w.lap + w.nlaps
                    /\ r.lap > 0
                    /\ r.round = w.round

\* C4 amended: the same with the start S' the code uses, S' = 1 when the
\* reported start S is 0 and S' = S otherwise: the flag is set if and only
\* if the lap index is in [S', S'+N), is greater than 0 and the round is R.
C4_WindowAdjusted ==
    (lap.called /\ lap.win_condition = 4) =>
        \A r \in LapRowsOut :
            LET w == WindowOf(r.pilot_id)
                start == IF w.lap = 0 THEN 1 ELSE w.lap
            IN  r.best_q = 1 <=>
                    /\ r.lap >= start /\ r.lap < start + w.nlaps
                    /\ r.lap > 0
                    /\ r.round = w.round

\* C4 witness: pilot 1 flies both runs, rounds 1 and 2; the window is round
\* 1, reported start 0, size MaxLaps-1; in run 1 the laps 1..MaxLaps-1 are
\* flagged and lap 0 is clear, in run 2 no lap is flagged.
C4_Witness ==
    /\ lap.called /\ lap.win_condition = 4 /\ lap.scenario = "window"
    /\ WindowOf(1).lap = 0 /\ WindowOf(1).nlaps = MaxLaps - 1 /\ WindowOf(1).round = 1
    /\ {r.lap : r \in {x \in LapRowsOut : x.run = 1 /\ x.best_q = 1}} = 1..(MaxLaps - 1)
    /\ \E r \in LapRowsOut : r.run = 1 /\ r.lap = 0 /\ r.best_q = 0
    /\ \E r \in LapRowsOut : r.run = 2 /\ r.pilot_id = 1 /\ r.round = 2
    /\ \A r \in LapRowsOut : r.run = 2 => r.best_q = 0

\* C5: with win condition 3, for every pilot the lap records flagged
\* fastest are exactly the records with lap index > 0 whose time is the
\* pilot's minimum over the records with lap index > 0 (ties all flagged).
C5_FastestLap ==
    (lap.called /\ lap.win_condition = 3) =>
        \A r \in LapRowsOut :
            r.fastest = 1 <=>
                /\ r.lap > 0
                /\ \A x \in LapRowsOut : (x.pilot_id = r.pilot_id /\ x.lap > 0) => r.time <= x.time

\* C5 witness: pilot 1 has two records tied at the minimum, one in each
\* run, both flagged; a slower lap and a holeshot as fast as the minimum
\* are not flagged.
C5_Witness ==
    /\ lap.called /\ lap.win_condition = 3
    /\ \E a, b \in LapRowsOut :
          /\ a.pilot_id = 1 /\ b.pilot_id = 1 /\ a.run = 1 /\ b.run = 2
          /\ a.fastest = 1 /\ b.fastest = 1
    /\ \E r \in LapRowsOut : r.pilot_id = 1 /\ r.lap > 0 /\ r.time = 2 /\ r.fastest = 0
    /\ \E r \in LapRowsOut : r.pilot_id = 1 /\ r.lap = 0 /\ r.time = 1 /\ r.fastest = 0

\* the runs whose laps belong in the lap table of the requested class
LapEligible(run) ==
    /\ run.pilot_id # 0
    /\ \E j \in 1..Len(lap.pilot_df) : lap.pilot_df[j] = run.pilot_id
    /\ run.laps # <<>>
    /\ races[run.race_id].present
    /\ db.heats[races[run.race_id].heat_id] = lap.raceclass.class_id

\* C8: when one access made for one pilot-run or one lap fails, the lap
\* table still holds a record for every lap that is not deleted of every
\* other run of the class.
C8_OtherRunsKept ==
    (lap.called /\ \E f \in lap.faults : f.run # 0) =>
        \A i \in 1..Len(db.pilotruns) :
            LET run == db.pilotruns[i]
            IN  (LapEligible(run) /\ \A f \in lap.faults : f.run # run.id) =>
                    \A k \in 1..Len(run.laps) :
                        run.laps[k].deleted = 0 =>
                            \E r \in LapRowsOut : r.run = run.id /\ r.lap = k - 1

----------------------------------------------------------------------------
(* The pilot table: EventPlotsGenerator._extract_pilot_data.               *)

\* the elements of a set of numbers in ascending order (the order a Python
\* set of small ints is iterated in)
RECURSIVE Ascending(_)
Ascending(S) ==
    IF S = {} THEN <<>> ELSE <<SetMin(S)>> \o Ascending(S \ {SetMin(S)})

\* a pilot extraction without the roster fallback
ExtractPilotData_NoFallback(class_id, d, race_by_id, cache, faults) ==
    LET class_heat_ids == GetClassHeatIds(class_id, d, faults, "pilot")
        m == BuildPilotrunHeatMap(class_heat_ids, d, race_by_id, cache, faults, "pilot")
        pilot_set == {m.map[k].pilot_id :
                         k \in {j \in 1..Len(m.map) : m.map[j].heat \in class_heat_ids}}
        roster == {d.pilots[k] : k \in 1..Len(d.pilots)}
    IN  IF FaultAt("pilot", "pilots", 0, 0) \in faults
        THEN [pilot_df |-> <<>>, cache |-> m.cache]
        ELSE [pilot_df |-> Ascending(pilot_set \cap roster), cache |-> m.cache]

\* a pilot extraction that keeps every roster pilot who has a run with laps
ExtractPilotData_AnyHeat(class_id, d, race_by_id, cache, faults) ==
    LET class_heat_ids == GetClassHeatIds(class_id, d, faults, "pilot")
        m == BuildPilotrunHeatMap({}, d, race_by_id, cache, faults, "pilot")
        pilot_set == {m.map[k].pilot_id : k \in 1..Len(m.map)}
        roster == {d.pilots[k] : k \in 1..Len(d.pilots)}
    IN  IF FaultAt("pilot", "pilots", 0, 0) \in faults
        THEN [pilot_df |-> <<>>, cache |-> m.cache]
        ELSE IF class_heat_ids # {}
        THEN [pilot_df |-> Ascending(pilot_set \cap roster), cache |-> m.cache]
        ELSE [pilot_df |-> d.pilots, cache |-> m.cache]

\* _extract_pilot_data(raceclass): the pilot ids of the table and the cache
\* afterwards; d.pilots is the roster rhapi.db.pilots
ExtractPilotData(class_id, d, race_by_id, cache, faults) ==
    LET class_heat_ids == GetClassHeatIds(class_id, d, faults, "pilot")
        m == BuildPilotrunHeatMap(class_heat_ids, d, race_by_id, cache, faults, "pilot")
        pilot_set == {m.map[k].pilot_id :
                         k \in {j \in 1..Len(m.map) : m.map[j].heat \in class_heat_ids}}
        roster == {d.pilots[k] : k \in 1..Len(d.pilots)}
    IN  IF FaultAt("pilot", "pilots", 0, 0) \in faults
        THEN [pilot_df |-> <<>>, cache |-> m.cache]
        ELSE IF class_heat_ids # {}
        THEN [pilot_df |-> Ascending(pilot_set \cap roster), cache |-> m.cache]
        ELSE [pilot_df |-> d.pilots, cache |-> m.cache]

----------------------------------------------------------------------------
(* The consecutive table: EventPlotsGenerator._extract_consecutive_data.   *)
(* An entry of results['by_consecutives'] has pilot_id, laps, consecutives *)
(* (the best time), consecutives_source, consecutive_lap_start and         *)
(* consecutives_base (0: None).  The source has heat (truthy or not), a    *)
(* round field ("int": converts to round; "missing": no such key; "none":  *)
(* the value None) and displayname, a text modelled as its tokens: a word  *)
(* that int() rejects, an integer, or the separator "/".                   *)

WordToken == [kind |-> "word", n |-> 0]
SlashToken == [kind |-> "slash", n |-> 0]
IntToken(n) == [kind |-> "int", n |-> n]

\* line 354-356: parts[0] of displayname.split("/")
RECURSIVE FirstPart(_)
FirstPart(tokens) ==
    IF tokens = <<>> \/ Head(tokens).kind = "slash" THEN <<>>
    ELSE <<Head(tokens)>> \o FirstPart(Tail(tokens))

\* lines 358-364: the first word int() accepts, 0 when there is none
RECURSIVE FirstInt(_)
FirstInt(words) ==
    IF words = <<>> THEN 0
    ELSE IF Head(words).kind = "int" THEN Head(words).n
    ELSE FirstInt(Tail(words))

\* lines 351-364: the round parsed from the descriptor text
RoundFromText(displayname) == FirstInt(FirstPart(displayname))

\* lines 344-372: roundn of an entry; raised when int(None) leaves the
\* inner try (TypeError is not among the exceptions it catches); a missing
\* round key is caught there and gives 0 without the text being looked at
ConsecutiveRound(source) ==
    IF source.heat /\ source.round_kind = "none" THEN [raised |-> TRUE, round |-> 0]
    ELSE IF source.heat /\ source.round_kind = "missing" THEN [raised |-> FALSE, round |-> 0]
    ELSE LET roundn == IF source.heat THEN source.round ELSE 0
         IN  [raised |-> FALSE,
              round |-> IF roundn = 0 THEN RoundFromText(source.displayname) ELSE roundn]

\* lines 340-405: the row of one entry whose round could be determined
ConsecutiveRow(entry) ==
    IF entry.laps > 0
    THEN [pilot_id |-> entry.pilot_id, time |-> entry.consecutives,
          round |-> ConsecutiveRound(entry.consecutives_source).round,
          lap |-> entry.consecutive_lap_start, nlaps |-> entry.consecutives_base]
    ELSE [pilot_id |-> entry.pilot_id, time |-> 0, round |-> 0, lap |-> 0, nlaps |-> 0]

\* lines 340-407: the loop over the entries; an exception that leaves the
\* body of an entry ends the loop and keeps the rows built so far
RECURSIVE ConsecutiveRowsFrom(_, _)
ConsecutiveRowsFrom(entries, acc) ==
    IF entries = <<>> THEN acc
    ELSE IF Head(entries).laps > 0 /\ ConsecutiveRound(Head(entries).consecutives_source).raised
    THEN acc
    ELSE ConsecutiveRowsFrom(Tail(entries), Append(acc, ConsecutiveRow(Head(entries))))

\* _extract_consecutive_data(raceclass_results, consecutive_laps_base), for
\* results that are not empty: the columns are named with the base
ExtractConsecutiveData(d, consecutive_laps_base) ==
    [present |-> TRUE, base |-> consecutive_laps_base,
     rows |-> IF d.results = "by_consecutives"
              THEN ConsecutiveRowsFrom(d.by_consecutives, <<>>)
              ELSE <<>>]

----------------------------------------------------------------------------
(* Plot assembly: EventPlotsGenerator._generate_plot.                      *)

\* _generate_plot(...): raised when an exception leaves it - the columns
\* 'Best N Consecutive ...' of line 692 are not those of the table, or the
\* option read of line 887 raises
GeneratePlot(pilot_df, lap_df, win_condition, consecutive_df, consecutive_laps_base, faults) ==
    LET ordered_by_window ==
            win_condition = 4 /\ consecutive_df.present /\ consecutive_df.rows # <<>>
    IN  IF ordered_by_window /\ consecutive_df.base # consecutive_laps_base
        THEN [raised |-> TRUE]
        ELSE IF FaultAt("plot", "option", 0, 0) \in faults
        THEN [raised |-> TRUE]
        ELSE [raised |-> FALSE]

\* a personal best taken over every lap, the holeshot included
PilotBestLaps_AllLaps(lap_df) ==
    LET rows == {lap_df[k] : k \in 1..Len(lap_df)}
    IN  {[pilot_id |-> p, time |-> SetMin({r.time : r \in {x \in rows : x.pilot_id = p}})] :
            p \in {r.pilot_id : r \in rows}}

\* line 686: pilot_best_laps, the least lap time of each pilot over the
\* records with lap index > 0; a pilot without such a record has none
PilotBestLaps(lap_df) ==
    LET rows == {lap_df[k] : k \in 1..Len(lap_df)}
        timed == {r \in rows : r.lap > 0}
    IN  {[pilot_id |-> p, time |-> SetMin({r.time : r \in {x \in timed : x.pilot_id = p}})] :
            p \in {r.pilot_id : r \in timed}}

\* the sequence s in reverse
Reverse(s) == [k \in 1..Len(s) |-> s[Len(s) + 1 - k]]

\* the elements of the sequence s
Range(s) == {s[k] : k \in 1..Len(s)}

\* the orderings of the elements of a finite set
RECURSIVE Perms(_)
Perms(S) ==
    IF S = {} THEN {<<>>}
    ELSE UNION {{<<x>> \o q : q \in Perms(S \ {x})} : x \in S}

\* a priority that puts the smaller windows first
GetPriority_SmallFirst(n_laps, consecutive_laps_base) ==
    IF n_laps = 0 THEN 999999 ELSE n_laps

\* lines 694-697: get_priority
GetPriority(n_laps, consecutive_laps_base) ==
    IF n_laps = 0 THEN 999999 ELSE consecutive_laps_base - n_laps

\* lines 699-702: row a is not after row b under the keys _sort_priority,
\* time
KeyLessEq(a, b, consecutive_laps_base) ==
    LET pa == GetPriority(a.nlaps, consecutive_laps_base)
        pb == GetPriority(b.nlaps, consecutive_laps_base)
    IN  pa < pb \/ (pa = pb /\ a.time <= b.time)

\* sorted with row inserted behind every row that is not after it
RECURSIVE InsertRow(_, _, _)
InsertRow(sorted, row, consecutive_laps_base) ==
    IF sorted = <<>> THEN <<row>>
    ELSE IF KeyLessEq(Head(sorted), row, consecutive_laps_base)
    THEN <<Head(sorted)>> \o InsertRow(Tail(sorted), row, consecutive_laps_base)
    ELSE <<row>> \o sorted

\* lines 699-702: sort_values on two keys, a stable sort (rows with equal
\* keys keep the order of the table)
RECURSIVE SortValues(_, _, _)
SortValues(rows, k, consecutive_laps_base) ==
    IF k = 0 THEN <<>>
    ELSE InsertRow(SortValues(rows, k - 1, consecutive_laps_base), rows[k],
                   consecutive_laps_base)

\* the table is used for the order of the pilots and for their labels
OrderedByWindow(win_condition, consecutive_df) ==
    win_condition = 4 /\ consecutive_df.present /\ consecutive_df.rows # <<>>

\* an order of the pilots that ignores the lap times
PilotOrders_AnyOrder(lap_df, win_condition, consecutive_df, consecutive_laps_base) ==
    IF OrderedByWindow(win_condition, consecutive_df)
    THEN LET sorted == SortValues(consecutive_df.rows, Len(consecutive_df.rows),
                                  consecutive_laps_base)
         IN  {[k \in 1..Len(sorted) |-> sorted[k].pilot_id]}
    ELSE Perms({b.pilot_id : b \in PilotBestLaps(lap_df)})

\* lines 688-707: the values pilot_order can take.  With the table, the
\* pilot ids of its rows sorted by (priority, time); without, the pilots of
\* pilot_best_laps by ascending best lap, pilots with equal best laps in
\* any order (sort_values on one key is not a stable sort)
PilotOrders(lap_df, win_condition, consecutive_df, consecutive_laps_base) ==
    IF OrderedByWindow(win_condition, consecutive_df)
    THEN LET sorted == SortValues(consecutive_df.rows, Len(consecutive_df.rows),
                                  consecutive_laps_base)
         IN  {[k \in 1..Len(sorted) |-> sorted[k].pilot_id]}
    ELSE LET best == PilotBestLaps(lap_df)
             time(p) == (CHOOSE b \in best : b.pilot_id = p).time
         IN  {q \in Perms({b.pilot_id : b \in best}) :
                 \A i \in 1..Len(q), j \in 1..Len(q) : i < j => time(q[i]) <= time(q[j])}

\* lines 713-714: the number of colours of color_palette
PaletteSize == 10

\* lines 710-716: heat_colors, the index in the palette of the colour of
\* each heat of the lap table
HeatColors(lap_df) ==
    LET unique_heats == Ascending({r.heat : r \in Range(lap_df)})
    IN  [h \in Range(unique_heats) |->
            ((CHOOSE idx \in 1..Len(unique_heats) : unique_heats[idx] = h) - 1) % PaletteSize]

\* a trace of the figure: its kind, its pilot, its heat and the palette
\* index of its colour (0 and -1 when it has none), the lap records it
\* shows and their lap indices in the order it joins them
Trace(kind, pilot_id, heat, colour, rows) ==
    [kind |-> kind, pilot_id |-> pilot_id, heat |-> heat, colour |-> colour,
     rows |-> rows, laps |-> Ascending({r.lap : r \in rows})]

\* lines 731-763: the box trace over the laps after the holeshot and the
\* marker trace of the holeshots
BaseTraces(pilot_id, pilot_laps) ==
    LET regular_laps == {r \in pilot_laps : r.lap > 0}
        holeshots == {r \in pilot_laps : r.lap = 0}
    IN  (IF regular_laps # {} THEN <<Trace("box", pilot_id, 0, -1, regular_laps)>> ELSE <<>>)
        \o (IF holeshots # {} THEN <<Trace("holeshot", pilot_id, 0, -1, holeshots)>> ELSE <<>>)

\* lines 768-786: the connecting traces of the heats from unique_heats[k] on
RECURSIVE HeatTraces(_, _, _, _, _)
HeatTraces(pilot_id, pilot_laps, unique_heats, heat_colors, k) ==
    IF k > Len(unique_heats) THEN <<>>
    ELSE LET heat_id == unique_heats[k]
             heat_laps == {r \in pilot_laps : r.heat = heat_id /\ r.lap > 0}
         IN  (IF Cardinality(heat_laps) > 1
              THEN <<Trace("heat", pilot_id, heat_id, heat_colors[heat_id], heat_laps)>>
              ELSE <<>>)
             \o HeatTraces(pilot_id, pilot_laps, unique_heats, heat_colors, k + 1)

\* extras that join the laps of a heat under every win condition
ExtraTraces_HeatsAlways(pilot_id, pilot_laps, win_condition, unique_heats, heat_colors) ==
    HeatTraces(pilot_id, pilot_laps, unique_heats, heat_colors, 1)

\* lines 765-822: the extras of one pilot
ExtraTraces(pilot_id, pilot_laps, win_condition, unique_heats, heat_colors) ==
    IF win_condition = 1 \/ win_condition = 2
    THEN HeatTraces(pilot_id, pilot_laps, unique_heats, heat_colors, 1)
    ELSE IF win_condition = 3
    THEN LET fastest_laps == {r \in pilot_laps : r.fastest = 1 /\ r.lap > 0}
         IN  IF fastest_laps # {} THEN <<Trace("fastest", pilot_id, 0, -1, fastest_laps)>>
             ELSE <<>>
    ELSE IF win_condition = 4
    THEN LET best_q_laps == {r \in pilot_laps : r.best_q = 1}
         IN  IF best_q_laps # {} THEN <<Trace("best_q", pilot_id, 0, -1, best_q_laps)>>
             ELSE <<>>
    ELSE <<>>

\* lines 719-822: the traces of the pilots from position k of the reversed
\* pilot_order on; a pilot without lap records or without a row in the
\* pilot table gets none
RECURSIVE PilotTraces(_, _, _, _, _, _)
PilotTraces(reversed, k, pilot_df, lap_df, win_condition, heat_colors) ==
    IF k > Len(reversed) THEN <<>>
    ELSE LET pilot_id == reversed[k]
             pilot_laps == {r \in Range(lap_df) : r.pilot_id = pilot_id}
             unique_heats == Ascending({r.heat : r \in Range(lap_df)})
             rest == PilotTraces(reversed, k + 1, pilot_df, lap_df, win_condition, heat_colors)
         IN  IF pilot_laps = {} \/ pilot_id \notin Range(pilot_df) THEN rest
             ELSE BaseTraces(pilot_id, pilot_laps)
                  \o ExtraTraces(pilot_id, pilot_laps, win_condition, unique_heats, heat_colors)
                  \o rest

\* lines 824-852: the legend entries
Legend(win_condition) ==
    <<"Raw Data Points", "Hole Shot">>
    \o (IF win_condition = 3 THEN <<"Fastest Lap">>
        ELSE IF win_condition = 4 THEN <<"Best Consecutive Lap">> ELSE <<>>)

\* lines 855-864: custom_ytics, the pilots of the reversed pilot_order that
\* have a row in the pilot table
CustomYtics(pilot_order, pilot_df) ==
    SelectSeq(Reverse(pilot_order), LAMBDA p : p \in Range(pilot_df))

\* lines 866-884: what the label of a pilot on the axis shows besides the
\* name: the window ("consecutive"), the best lap ("best") or nothing
CustomYlabel(ytics, lap_df, win_condition, consecutive_df) ==
    [k \in 1..Len(ytics) |->
        IF OrderedByWindow(win_condition, consecutive_df)
        THEN IF \E r \in Range(consecutive_df.rows) : r.pilot_id = ytics[k]
             THEN "consecutive" ELSE "name"
        ELSE IF \E b \in PilotBestLaps(lap_df) : b.pilot_id = ytics[k] /\ b.time > 0
             THEN "best" ELSE "name"]

\* lines 683-935: the figure _generate_plot draws for one value of
\* pilot_order
Figure(pilot_df, lap_df, win_condition, consecutive_df, pilot_order) ==
    [pilot_order |-> pilot_order,
     heat_colors |-> HeatColors(lap_df),
     traces |-> PilotTraces(Reverse(pilot_order), 1, pilot_df, lap_df, win_condition,
                            HeatColors(lap_df)),
     legend |-> Legend(win_condition),
     custom_ytics |-> CustomYtics(pilot_order, pilot_df),
     custom_ylabel |-> CustomYlabel(CustomYtics(pilot_order, pilot_df), lap_df,
                                    win_condition, consecutive_df),
     rows |-> Len(pilot_order)]

\* no figure
NoFigure ==
    [pilot_order |-> <<>>, heat_colors |-> <<>>, traces |-> <<>>, legend |-> <<>>,
     custom_ytics |-> <<>>, custom_ylabel |-> <<>>, rows |-> 0]

\* a title: the names it shows, in order, and the window size of its
\* "{N} Consecutive Laps" part (0: no such part); " - Lap Times" ends each
Title(names, consecutive) == [names |-> names, consecutive |-> consecutive]

\* lines 892-910: plot_title; a name is "" when it is unknown
PlotTitle(win_condition, event_name, raceformat_name, raceclass_name, consecutive_laps_base) ==
    IF win_condition = 4
    THEN IF raceformat_name # "" /\ raceclass_name # ""
         THEN Title(<<raceformat_name, raceclass_name>>, consecutive_laps_base)
         ELSE IF raceclass_name # "" THEN Title(<<raceclass_name>>, consecutive_laps_base)
         ELSE Title(<<>>, consecutive_laps_base)
    ELSE IF raceformat_name # "" /\ raceclass_name # ""
         THEN Title(<<raceformat_name, raceclass_name>>, 0)
         ELSE IF raceclass_name # "" THEN Title(<<raceclass_name>>, 0)
         ELSE IF raceformat_name # "" THEN Title(<<raceformat_name>>, 0)
         ELSE Title(<<event_name>>, 0)

\* what the chart shows of the tables: its title and the personal bests
Chart(title, best) == [drawn |-> TRUE, title |-> title, best |-> best]

NoChart == [drawn |-> FALSE, title |-> Title(<<>>, 0), best |-> {}]

----------------------------------------------------------------------------
(* The orchestration: EventPlotsGenerator.generate_plot.                   *)
(* A race class is None ("None"), lacks the attribute id ("no_id"), has    *)
(* id None ("id_None"), raises when id is read ("id_raises",               *)
(* "id_raises_late") or is valid.                                          *)

\* a validation that only rejects a race class that is None
ValidateRaceclass_NoneOnly(raceclass) ==
    IF raceclass.id = "None" THEN "invalid" ELSE "valid"

\* lines 943-965: _validate_raceclass.  hasattr lets every exception but
\* AttributeError through ("id_raises"); a read of id that raises after
\* hasattr succeeded ("id_raises_late") is reported as invalid
ValidateRaceclass(raceclass) ==
    IF raceclass.id \in {"None", "no_id", "id_None", "id_raises_late"} THEN "invalid"
    ELSE IF raceclass.id = "id_raises" THEN "raised"
    ELSE "valid"

\* lines 989-992: the event name, "Event" when the option read raises
EventName(d, faults) ==
    IF FaultAt("gen", "option", 0, 0) \in faults THEN "Event" ELSE d.event_name

\* lines 995-998: the class name, "" when the class has none
RaceclassName(raceclass) == raceclass.name

\* lines 1001-1018: the name of the race format reached, "" when no format
\* is reached or it has no name
RaceformatName(raceclass, d, faults) ==
    LET reached ==
            IF raceclass.format_id # "absent"
            THEN IF FaultAt("gen", "raceformat_by_id", 0, 0) \in faults THEN "nothing"
                 ELSE raceclass.format_id
            ELSE IF raceclass.raceformat # "absent" THEN raceclass.raceformat
            ELSE IF raceclass.format # "absent" THEN raceclass.format
            ELSE "nothing"
    IN  IF reached = "format" THEN d.raceformat.name ELSE ""

\* line 1003: the default consecutive_laps_base
DefaultBase == 3
\* line 1081: the largest consecutive_laps_base accepted
MaxBase == 100

\* lines 1003-1038: consecutive_laps_base from the race format; the default
\* when the format is not reached, has neither attribute, or int() raises
FormatBase(raceclass, d, faults) ==
    LET reached ==
            IF raceclass.format_id # "absent"
            THEN IF FaultAt("gen", "raceformat_by_id", 0, 0) \in faults THEN "nothing"
                 ELSE raceclass.format_id
            ELSE IF raceclass.raceformat # "absent" THEN raceclass.raceformat
            ELSE IF raceclass.format # "absent" THEN raceclass.format
            ELSE "nothing"
    IN  IF reached = "format" /\ d.raceformat.has_base /\ d.raceformat.base_convertible
        THEN d.raceformat.base ELSE DefaultBase

\* lines 1061-1066: the first truthy consecutives_base of the entries, 0
\* when there is none
RECURSIVE FirstBase(_)
FirstBase(entries) ==
    IF entries = <<>> THEN 0
    ELSE IF Head(entries).consecutives_base # 0 THEN Head(entries).consecutives_base
    ELSE FirstBase(Tail(entries))

SetMax(S) == CHOOSE x \in S : \A y \in S : y <= x

\* lines 1052-1077: the consecutive table and the base after the class
\* results were read (win condition 4, results not empty)
ResolveConsecutive(d, base0) ==
    LET df0 == ExtractConsecutiveData(d, base0)
        first == IF d.results = "by_consecutives" THEN FirstBase(d.by_consecutives) ELSE 0
        base1 == IF base0 = DefaultBase /\ first # 0 THEN first ELSE base0
        max_nlaps == IF df0.rows = <<>> THEN 0
                     ELSE SetMax({df0.rows[k].nlaps : k \in 1..Len(df0.rows)})
    IN  IF base0 = DefaultBase /\ base1 = DefaultBase /\ df0.rows # <<>> /\ max_nlaps > 0
        THEN [df |-> ExtractConsecutiveData(d, max_nlaps), base |-> max_nlaps]
        ELSE [df |-> df0, base |-> base1]

\* lines 1079-1088: a base outside 1..MaxBase is replaced by the default and
\* the table extracted again when it has rows and the class results are
\* read again and are not empty
ValidateBase(d, c, faults) ==
    IF c.base <= 0 \/ c.base > MaxBase
    THEN IF c.df.present /\ c.df.rows # <<>>
         THEN IF FaultAt("gen", "raceclass_results_again", 0, 0) \in faults
              THEN [raised |-> TRUE, df |-> c.df, base |-> DefaultBase]
              ELSE [raised |-> FALSE, df |-> ExtractConsecutiveData(d, DefaultBase),
                    base |-> DefaultBase]
         ELSE [raised |-> FALSE, df |-> c.df, base |-> DefaultBase]
    ELSE [raised |-> FALSE, df |-> c.df, base |-> c.base]

\* what generate_plot hands back: the document, whether the data source
\* was read, how far the pilot and lap tables got ("not_extracted", "empty",
\* "rows"), whether _generate_plot was invoked, and the cache afterwards;
\* win_condition, base, consecutive_df and lap_df are what lap extraction
\* and plot assembly were given, chart what the chart shows
Outcome(doc, reads, pilot, laps, assembled, cache) ==
    [doc |-> doc, reads |-> reads, pilot |-> pilot, laps |-> laps,
     assembled |-> assembled, cache |-> cache,
     win_condition |-> 0, base |-> 0, consecutive_df |-> NoConsecutiveDf,
     lap_df |-> <<>>, chart |-> NoChart]

\* the outcome of a call that reached lap extraction
Extracted(outcome, win_condition, c, lap_df, chart) ==
    [outcome EXCEPT !.win_condition = win_condition, !.base = c.base,
                    !.consecutive_df = c.df, !.lap_df = lap_df, !.chart = chart]

\* lines 981, 986, 1049, 1094: the messages that carry the link back to the
\* class list; the error message of line 1101 and the chart carry none
BackLink(doc) == doc \in {"InvalidInput", "NoRaces", "NoPilots", "NoLaps"}

\* assembly whatever the lap table l holds
LapsOutcome_NoEmptyCheck(l, raceclass, d, win_condition, pilot_df, c, faults) ==
    LET laps == IF l.lap_df = <<>> THEN "empty" ELSE "rows"
        chart == Chart(PlotTitle(win_condition, EventName(d, faults),
                                 RaceformatName(raceclass, d, faults),
                                 RaceclassName(raceclass), c.base),
                       PilotBestLaps(l.lap_df))
    IN  IF GeneratePlot(pilot_df, l.lap_df, win_condition, c.df, c.base, faults).raised
        THEN Extracted(Outcome("Raised", TRUE, "rows", laps, TRUE, l.cache),
                       win_condition, c, l.lap_df, NoChart)
        ELSE Extracted(Outcome("Chart", TRUE, "rows", laps, TRUE, l.cache),
                       win_condition, c, l.lap_df, chart)

\* lines 1092-1097: what is returned once lap extraction gave l
LapsOutcome(l, raceclass, d, win_condition, pilot_df, c, faults) ==
    LET chart == Chart(PlotTitle(win_condition, EventName(d, faults),
                                 RaceformatName(raceclass, d, faults),
                                 RaceclassName(raceclass), c.base),
                       PilotBestLaps(l.lap_df))
    IN  IF l.lap_df = <<>>
        THEN Extracted(Outcome("NoLaps", TRUE, "rows", "empty", FALSE, l.cache),
                       win_condition, c, l.lap_df, NoChart)
        ELSE IF GeneratePlot(pilot_df, l.lap_df, win_condition, c.df, c.base, faults).raised
        THEN Extracted(Outcome("Raised", TRUE, "rows", "rows", TRUE, l.cache),
                       win_condition, c, l.lap_df, NoChart)
        ELSE Extracted(Outcome("Chart", TRUE, "rows", "rows", TRUE, l.cache),
                       win_condition, c, l.lap_df, chart)

\* lines 1090-1097: lap extraction and plot assembly
GenerateFromLaps(raceclass, d, race_by_id, win_condition, pilot_df, c, cache, faults) ==
    LapsOutcome(ExtractLapData(raceclass.class_id, win_condition, pilot_df, c.df, d,
                               race_by_id, cache, faults),
                raceclass, d, win_condition, pilot_df, c, faults)

\* lines 1000-1097: from the race format on
GenerateFromFormat(raceclass, d, race_by_id, cache, faults) ==
    LET base0 == FormatBase(raceclass, d, faults)
        win_condition == GetWinCondition(raceclass, d, faults).value
        p == ExtractPilotData(raceclass.class_id, d, race_by_id, cache, faults)
        none == [df |-> NoConsecutiveDf, base |-> base0]
        failed == Outcome("Raised", TRUE, "rows", "not_extracted", FALSE, p.cache)
    IN  IF p.pilot_df = <<>>
        THEN Outcome("NoPilots", TRUE, "empty", "not_extracted", FALSE, p.cache)
        ELSE IF win_condition # 4
        THEN GenerateFromLaps(raceclass, d, race_by_id, win_condition, p.pilot_df, none,
                              p.cache, faults)
        ELSE IF FaultAt("gen", "raceclass_results", 0, 0) \in faults THEN failed
        ELSE LET c == IF d.results = "nothing" THEN none ELSE ResolveConsecutive(d, base0)
                 v == ValidateBase(d, c, faults)
             IN  IF v.raised THEN failed
                 ELSE GenerateFromLaps(raceclass, d, race_by_id, win_condition, p.pilot_df,
                                       v, p.cache, faults)

\* lines 977-1097, the body of the try block; "Raised": an exception left
\* it.  The reads of the event name (989-992) and of the class name
\* (995-998) have except clauses of their own and decide nothing below.
GeneratePlotTry(raceclass, d, race_by_id, cache, faults) ==
    LET is_valid == ValidateRaceclass(raceclass)
        early(doc, reads) == Outcome(doc, reads, "not_extracted", "not_extracted", FALSE, cache)
    IN  IF is_valid = "raised" THEN early("Raised", FALSE)
        ELSE IF is_valid = "invalid" THEN early("InvalidInput", FALSE)
        ELSE IF FaultAt("gen", "races", 0, 0) \in faults THEN early("Raised", TRUE)
        ELSE IF \A r \in DOMAIN race_by_id : ~race_by_id[r].present
        THEN early("NoRaces", TRUE)
        ELSE GenerateFromFormat(raceclass, d, race_by_id, cache, faults)

\* a generate_plot without its except clause
GeneratePlotCatch_Propagate(t) == t

\* lines 1099-1101: except Exception logs and returns the error message
GeneratePlotCatch(t) == IF t.doc = "Raised" THEN [t EXCEPT !.doc = "Error"] ELSE t

\* generate_plot(raceclass)
GeneratePlotCall(raceclass, d, race_by_id, cache, faults) ==
    GeneratePlotCatch(GeneratePlotTry(raceclass, d, race_by_id, cache, faults))

----------------------------------------------------------------------------
(* Specification SpecGen: generate_plot on the data sources below.  Pilot  *)
(* runs exist only for saved races.  The accesses that raise are chosen    *)
(* at the first call and stay the same when the call is repeated on the    *)
(* cache the first call left.  Five families of inputs are drawn:          *)
(*   "class"  every kind of race class argument, with and without races    *)
(*            and cache entries; up to two accesses, or all of them, raise *)
(*   "data"   a valid class; the heats, the roster, the runs, the races    *)
(*            and the win condition vary; at most one access raises        *)
(*   "base"   a valid class of win condition 4; the race format, the       *)
(*            class results and their entries vary                         *)
(*   "title"  a valid class; the win condition, the names of the class     *)
(*            and of the format and the way the format is reached vary     *)
(*   "laps"   a valid class; the win condition, the laps of both runs and  *)
(*            the reported window start of pilot 1 vary                    *)

ClassIdKinds == {"None", "no_id", "id_None", "id_raises", "id_raises_late", "valid"}

\* a race class argument that reaches its format through format_id
GenClass(id, format_id) ==
    [id |-> id, class_id |-> 1, name |-> "C", format_id |-> format_id,
     raceformat |-> "absent", format |-> "absent"]

\* a race format with a win condition and, with has_base, a
\* consecutive_laps_base attribute
GenFormat(win_condition, has_base, base_convertible, base) ==
    [has_win_condition |-> TRUE, convertible |-> TRUE, win_condition |-> win_condition,
     has_base |-> has_base, base_convertible |-> base_convertible, base |-> base,
     name |-> "F"]

\* pilot['consecutives_source']
Source(heat, round_kind, round, displayname) ==
    [heat |-> heat, round_kind |-> round_kind, round |-> round, displayname |-> displayname]

\* an entry of results['by_consecutives'] whose source carries round 1
Entry(pilot_id, laps, consecutives_base) ==
    [pilot_id |-> pilot_id, laps |-> laps, consecutives |-> 1,
     consecutives_source |-> Source(TRUE, "int", 1, <<>>),
     consecutive_lap_start |-> 1, consecutives_base |-> consecutives_base]

GenDb(heats, pilots, pilotruns, raceformat, results, by_consecutives) ==
    [heats |-> heats, pilots |-> pilots, pilotruns |-> pilotruns,
     raceformat |-> raceformat, results |-> results, by_consecutives |-> by_consecutives,
     event_name |-> "E"]

NoOutcome == Outcome("None", FALSE, "not_extracted", "not_extracted", FALSE, <<>>)

GenCall(scenario, raceclass) ==
    [scenario |-> scenario, raceclass |-> raceclass, before |-> <<>>,
     faults |-> {}, called |-> FALSE, out |-> NoOutcome]

GenCommonInit ==
    /\ last = NoLookup
    /\ recency = <<>>
    /\ evicted = {}
    /\ win = NoCall
    /\ lap = NoCall
    /\ cons = NoCall
    /\ pil = NoCall
    /\ plot = NoCall

TwoRuns == <<PilotRun(1, 1, <<Lap(0, 2), Lap(0, 1)>>), PilotRun(2, 2, <<Lap(0, 1)>>)>>

InitGenClass ==
    /\ GenCommonInit
    /\ \E saved \in BOOLEAN, warm \in BOOLEAN, win_condition \in {3, 4} :
         /\ races = IF saved THEN RacesOf(1, 0, 1, 1) ELSE [r \in RaceIds |-> NoRace]
         /\ race_cache = IF saved /\ warm THEN CacheInsert(<<>>, 1, 1) ELSE <<>>
         /\ db = GenDb(HeatClass, <<1, 2>>, IF saved THEN TwoRuns ELSE <<>>,
                       GenFormat(win_condition, FALSE, FALSE, 0), "by_consecutives",
                       <<Entry(1, 2, 2), Entry(2, 1, 2)>>)
    /\ \E id \in ClassIdKinds : gen = GenCall("class", GenClass(id, "format"))

InitGenData ==
    /\ GenCommonInit
    /\ race_cache = <<>>
    /\ \E h1 \in 0..MaxHeats :
         races = IF h1 = 0 THEN [r \in RaceIds |-> NoRace] ELSE RacesOf(h1, 0, 1, 1)
    /\ \E own \in BOOLEAN, pilots \in {<<>>, <<2>>, <<1, 2>>}, p1 \in {0, 1},
          laps1 \in {<<>>, <<Lap(1, 1)>>, PlainLaps(2, MaxLaps)},
          win_condition \in 0..MaxWinValue, results \in ResultKinds :
         db = GenDb(IF own THEN HeatClass ELSE [h \in HeatIds |-> 2], pilots,
                    IF \E r \in RaceIds : races[r].present
                    THEN <<PilotRun(1, p1, laps1), PilotRun(2, 2, <<Lap(0, 1)>>)>>
                    ELSE <<>>,
                    GenFormat(win_condition, FALSE, FALSE, 0), results,
                    <<Entry(1, 2, 2), Entry(2, 1, 2)>>)
    /\ gen = GenCall("data", GenClass("valid", "format"))

InitGenBase ==
    /\ GenCommonInit
    /\ race_cache = <<>>
    /\ races = RacesOf(1, 0, 1, 1)
    /\ \E has_base \in BOOLEAN, base_convertible \in BOOLEAN,
          base \in {0, 2, DefaultBase, MaxBase + 1}, results \in ResultKinds,
          laps1 \in {0, 2}, cb1 \in {0, 2, DefaultBase}, cb2 \in {0, 2, DefaultBase} :
         /\ has_base \/ (~base_convertible /\ base = 0)
         /\ db = GenDb(HeatClass, <<1, 2>>, TwoRuns,
                       GenFormat(4, has_base, base_convertible, base), results,
                       <<Entry(1, laps1, cb1), Entry(2, 2, cb2)>>)
    /\ \E format_id \in RefKinds : gen = GenCall("base", GenClass("valid", format_id))

\* an entry whose window of nlaps laps starts at lap start of round 1
WindowEntry(pilot_id, start, nlaps) ==
    [pilot_id |-> pilot_id, laps |-> nlaps, consecutives |-> 1,
     consecutives_source |-> Source(TRUE, "int", 1, <<>>),
     consecutive_lap_start |-> start, consecutives_base |-> nlaps]

InitGenTitle ==
    /\ GenCommonInit
    /\ race_cache = <<>>
    /\ races = RacesOf(1, 0, 1, 1)
    /\ \E win_condition \in 0..MaxWinValue, raceformat_name \in {"", "F"} :
         db = GenDb(HeatClass, <<1, 2>>, TwoRuns,
                    [GenFormat(win_condition, TRUE, TRUE, 2) EXCEPT !.name = raceformat_name],
                    "by_consecutives", <<Entry(1, 2, 2), Entry(2, 1, 2)>>)
    /\ \E raceclass_name \in {"", "C"}, format_id \in RefKinds :
         gen = GenCall("title", [GenClass("valid", format_id) EXCEPT !.name = raceclass_name])

InitGenLaps ==
    /\ GenCommonInit
    /\ race_cache = <<>>
    /\ races = RacesOf(1, 0, 1, 0)
    /\ \E win_condition \in 0..5, laps1 \in SeqsUpTo(LapKinds, MaxLaps),
          laps2 \in SeqsUpTo({Lap(0, 1), Lap(0, 2)}, 2), p2 \in {1, 2}, start \in 0..1 :
         db = GenDb(HeatClass, <<1, 2>>, <<PilotRun(1, 1, laps1), PilotRun(2, p2, laps2)>>,
                    GenFormat(win_condition, TRUE, TRUE, 2), "by_consecutives",
                    <<WindowEntry(1, start, 2), WindowEntry(2, 0, 0)>>)
    /\ gen = GenCall("laps", GenClass("valid", "format"))

InitGen == InitGenClass \/ InitGenData \/ InitGenBase \/ InitGenTitle \/ InitGenLaps

\* the accesses of generate_plot itself and of plot assembly that can raise
GenOwnFaultSites ==
    {FaultAt("gen", site, 0, 0) :
        site \in {"races", "option", "raceformat_by_id", "raceclass_results",
                  "raceclass_results_again"}}
    \cup {FaultAt("plot", "option", 0, 0)}

\* the accesses of one generate_plot call that can raise
GenFaultSites ==
    GenOwnFaultSites
    \cup {Fault("raceformat_by_id"), Fault("raceclass_results")}
    \cup {FaultAt("pilot", site, 0, 0) : site \in {"heats", "pilotruns", "pilots"}}
    \cup {FaultAt("pilot", site, run, 0) : site \in {"laps", "race"}, run \in {1, 2}}
    \cup LapFaultSites

GenFaults(scenario) ==
    IF scenario = "class"
    THEN {{}} \cup {{f, g} : f \in GenFaultSites, g \in GenFaultSites} \cup {GenFaultSites}
    ELSE IF scenario = "data" THEN {{}} \cup {{f} : f \in GenFaultSites}
    ELSE IF scenario \in {"base", "title"} THEN {{}} \cup {{f} : f \in GenOwnFaultSites}
    ELSE {{}}

\* one call of generate_plot
CallGeneratePlot ==
    /\ \E faults \in IF gen.called THEN {gen.faults} ELSE GenFaults(gen.scenario) :
         LET r == GeneratePlotCall(gen.raceclass, db, races, race_cache, faults)
         IN  /\ gen' = [gen EXCEPT !.before = race_cache, !.faults = faults,
                                   !.called = TRUE, !.out = r]
             /\ race_cache' = r.cache
    /\ UNCHANGED <<races, db, last, recency, evicted, win, lap, cons, pil, plot>>

NextGen == CallGeneratePlot

SpecGen == InitGen /\ [][NextGen]_vars

\* the documents generate_plot can hand back
Documents == {"Chart", "InvalidInput", "NoRaces", "NoPilots", "NoLaps", "Error"}

\* the three NoData messages
NoDataDocuments == {"NoRaces", "NoPilots", "NoLaps"}

\* C1: whatever the race class argument is and whichever accesses of the
\* data source raise, a call of generate_plot ends with a document (the
\* chart, the invalid-class message, a NoData message or the generic error
\* message) and no exception reaches the caller.
C1_AlwaysADocument ==
    gen.called => gen.out.doc \in Documents

\* a call in which an access raised, an exception left the body and the
\* outer boundary turned it into the generic error message
C1_Witness ==
    /\ gen.called
    /\ gen.raceclass.id = "valid"
    /\ gen.faults # {}
    /\ gen.out.doc = "Error"
    /\ gen.out.pilot = "rows"

\* the read of rhapi.db.races succeeded for a valid class and gave no race
GenZeroRaces ==
    /\ gen.raceclass.id = "valid"
    /\ FaultAt("gen", "races", 0, 0) \notin gen.faults
    /\ \A r \in RaceIds : ~races[r].present

\* C2: when the races read for a valid class are zero, when the pilot table
\* is empty after pilot extraction, and when the lap table is empty after
\* lap extraction, generate_plot returns a NoData message, plot assembly is
\* not invoked and nothing is raised.
C2_NoData ==
    (gen.called /\ (GenZeroRaces \/ gen.out.pilot = "empty" \/ gen.out.laps = "empty"))
        => (gen.out.doc \in NoDataDocuments /\ ~gen.out.assembled)

\* pilots were found, lap extraction ran and left an empty table
C2_Witness ==
    /\ gen.called
    /\ gen.out.pilot = "rows"
    /\ gen.out.laps = "empty"
    /\ gen.out.doc = "NoLaps"

\* C3: for a race class that is None, has no attribute id or has id None,
\* generate_plot returns the invalid-race-class message with the link back
\* to the class list, reads no record of the data source and leaves the
\* heat-resolution cache as it was.
C3_InvalidClass ==
    (gen.called /\ gen.raceclass.id \in {"None", "no_id", "id_None"})
        => /\ gen.out.doc = "InvalidInput"
           /\ BackLink(gen.out.doc)
           /\ ~gen.out.reads
           /\ race_cache = gen.before

\* an invalid class handed in while the cache holds an entry and every
\* access of the data source would raise
C3_Witness ==
    /\ gen.called
    /\ gen.raceclass.id \in {"None", "no_id", "id_None"}
    /\ gen.before # <<>>
    /\ gen.faults = GenFaultSites
    /\ gen.out.doc = "InvalidInput"

----------------------------------------------------------------------------
(* The range of the scoring rule.                                          *)

\* C11: the value _get_win_condition returns is one of 0..5, whatever
\* scoring-rule value the race format holds.
C11_WinConditionInRange ==
    win.called => win.out.value \in 0..5

----------------------------------------------------------------------------
(* Specification SpecCons: _extract_consecutive_data on class results      *)
(* whose first entry varies.  Two families of inputs are drawn:            *)
(*   "text"    the structured round of the entry is 0 and its descriptor   *)
(*             is any text of up to MaxTokens tokens                       *)
(*   "source"  the heat, the round field and the lap count of the entry,   *)
(*             the kind of results and the base vary                       *)

\* a descriptor text has at most MaxTokens tokens
MaxTokens == 5

\* the tokens of a descriptor text
Tokens == {WordToken, SlashToken} \cup {IntToken(n) : n \in 1..(MaxRound + 1)}

\* the text "Heat 3 / Round 2"
HeatRoundText == <<WordToken, IntToken(3), SlashToken, WordToken, IntToken(2)>>

SourcedEntry(pilot_id, laps, source) ==
    [pilot_id |-> pilot_id, laps |-> laps, consecutives |-> 1,
     consecutives_source |-> source, consecutive_lap_start |-> 1, consecutives_base |-> 2]

ConsCall(scenario, consecutive_laps_base) ==
    [scenario |-> scenario, consecutive_laps_base |-> consecutive_laps_base,
     called |-> FALSE, out |-> NoConsecutiveDf]

ConsCommonInit ==
    /\ CacheUnused
    /\ win = NoCall
    /\ lap = NoCall
    /\ gen = NoCall
    /\ pil = NoCall
    /\ plot = NoCall

InitConsText ==
    /\ ConsCommonInit
    /\ \E heat \in BOOLEAN, displayname \in SeqsUpTo(Tokens, MaxTokens) :
         db = [results |-> "by_consecutives",
               by_consecutives |->
                   <<SourcedEntry(1, 2, Source(heat, "int", 0, displayname)), Entry(2, 1, 2)>>]
    /\ cons = ConsCall("text", DefaultBase)

InitConsSource ==
    /\ ConsCommonInit
    /\ \E heat \in BOOLEAN, round_kind \in {"int", "missing", "none"}, round \in 0..MaxRound,
          displayname \in {<<>>, <<WordToken>>, <<IntToken(1)>>, HeatRoundText},
          laps \in {0, 2}, results \in ResultKinds :
         db = [results |-> results,
               by_consecutives |->
                   <<Entry(2, 1, 2),
                     SourcedEntry(1, laps, Source(heat, round_kind, round, displayname)),
                     Entry(3, 1, 2)>>]
    /\ \E base \in {2, DefaultBase} : cons = ConsCall("source", base)

InitCons == InitConsText \/ InitConsSource

\* one call of _extract_consecutive_data
CallExtractConsecutiveData ==
    /\ cons' = [cons EXCEPT !.called = TRUE,
                            !.out = ExtractConsecutiveData(db, cons.consecutive_laps_base)]
    /\ UNCHANGED <<races, db, race_cache, last, recency, evicted, win, lap, gen, pil, plot>>

NextCons == CallExtractConsecutiveData

SpecCons == InitCons /\ [][NextCons]_vars

\* the entry of pilot 1 in the class results, and its source
ConsEntry == CHOOSE e \in {db.by_consecutives[k] : k \in 1..Len(db.by_consecutives)} :
                 e.pilot_id = 1
ConsSource == ConsEntry.consecutives_source

\* the rows of pilot 1 in the table of the latest call
ConsRows == SelectSeq(cons.out.rows, LAMBDA r : r.pilot_id = 1)

\* the structured round of the entry of pilot 1 is 0 or absent
ConsRoundZeroOrAbsent ==
    \/ ConsSource.round_kind = "missing"
    \/ ConsSource.round_kind = "int" /\ ConsSource.round = 0

\* C12: for an entry with laps > 0 whose structured round is 0 or absent,
\* the descriptor "Heat 3 / Round 2" gives round 2 and a descriptor without
\* any integer token gives round 0.
C12_RoundFromDescriptor ==
    (cons.called /\ db.results = "by_consecutives" /\ ConsEntry.laps > 0
        /\ ConsRoundZeroOrAbsent)
        => /\ ConsRows # <<>>
           /\ ConsSource.displayname = HeatRoundText => ConsRows[1].round = 2
           /\ (\A k \in 1..Len(ConsSource.displayname) :
                  ConsSource.displayname[k].kind # "int") => ConsRows[1].round = 0

----------------------------------------------------------------------------
(* Specification SpecPilot: _extract_pilot_data for class 1 on a fresh     *)
(* cache.  Three pilot-runs arrive in order, run i with the laps of race   *)
(* i.  Two families of inputs are drawn:                                   *)
(*   "data"   the classes of the heats, the roster, the pilots of the      *)
(*            runs, the laps of run 1 and the heats of the races vary      *)
(*   "fault"  the heats of the races vary and one access may raise         *)

\* the rosters drawn (pilot ids in roster order)
Rosters == {<<>>, <<2>>, <<1, 2>>, <<3, 1>>, <<1, 2, 3>>}

\* race i saved with heat heat_of[i], absent when that is 0
RacesWithHeats(heat_of) ==
    [r \in RaceIds |->
        IF r \in DOMAIN heat_of /\ heat_of[r] # 0
        THEN [present |-> TRUE, heat_id |-> heat_of[r], round |-> 0]
        ELSE NoRace]

PilotCall(scenario) ==
    [scenario |-> scenario, raceclass |-> TheClass, faults |-> {},
     called |-> FALSE, out |-> <<>>]

PilotCommonInit ==
    /\ race_cache = <<>>
    /\ last = NoLookup
    /\ recency = <<>>
    /\ evicted = {}
    /\ win = NoCall
    /\ lap = NoCall
    /\ gen = NoCall
    /\ cons = NoCall
    /\ plot = NoCall

InitPilotData ==
    /\ PilotCommonInit
    /\ \E heats \in [HeatIds -> {1, 2}], pilots \in Rosters,
          p1 \in 0..2, p2 \in 0..2, laps1 \in {<<>>, <<Lap(0, 1)>>} :
         db = [heats |-> heats, pilots |-> pilots,
               pilotruns |-> <<PilotRun(1, p1, laps1), PilotRun(2, p2, <<Lap(0, 1)>>),
                               PilotRun(3, 3, <<Lap(1, 1), Lap(0, 1)>>)>>]
    /\ \E heat_of \in [1..3 -> 0..MaxHeats] : races = RacesWithHeats(heat_of)
    /\ pil = PilotCall("data")

InitPilotFault ==
    /\ PilotCommonInit
    /\ \E own \in BOOLEAN, p2 \in {1, 2} :
         db = [heats |-> IF own THEN HeatClass ELSE [h \in HeatIds |-> 2],
               pilots |-> <<1, 2, 3>>,
               pilotruns |-> <<PilotRun(1, 1, <<Lap(0, 1)>>), PilotRun(2, p2, <<Lap(0, 1)>>),
                               PilotRun(3, 3, <<Lap(0, 1)>>)>>]
    /\ \E h1 \in HeatIds, h2 \in HeatIds : races = RacesWithHeats(<<h1, h2, 1>>)
    /\ pil = PilotCall("fault")

InitPilot == InitPilotData \/ InitPilotFault

\* the accesses of one _extract_pilot_data call that can raise
PilotFaultSites ==
    {FaultAt("pilot", site, 0, 0) : site \in {"heats", "pilotruns", "pilots"}}
    \cup {FaultAt("pilot", site, run, 0) : site \in {"laps", "race"}, run \in 1..3}

\* at most one access raises in a call of the "fault" family, none elsewhere
PilotFaults(scenario) ==
    IF scenario = "fault" THEN {{}} \cup {{f} : f \in PilotFaultSites} ELSE {{}}

\* one call of _extract_pilot_data
CallExtractPilotData ==
    /\ ~pil.called
    /\ \E faults \in PilotFaults(pil.scenario) :
         LET r == ExtractPilotData(pil.raceclass.class_id, db, races, race_cache, faults)
         IN  /\ pil' = [pil EXCEPT !.faults = faults, !.called = TRUE, !.out = r.pilot_df]
             /\ race_cache' = r.cache
    /\ UNCHANGED <<races, db, last, recency, evicted, win, lap, gen, cons, plot>>

NextPilot == CallExtractPilotData

SpecPilot == InitPilot /\ [][NextPilot]_vars

\* the heats the data source assigns to the class of the call
ClassHeats == {h \in DOMAIN db.heats : db.heats[h] = pil.raceclass.class_id}

\* the pilot ids of the table of the latest call
PilotTable == {pil.out[k] : k \in 1..Len(pil.out)}

\* every access of the call that the table as a whole depends on succeeded
PilotTableReadable ==
    \A site \in {"heats", "pilotruns", "pilots"} : FaultAt("pilot", site, 0, 0) \notin pil.faults

\* C13: when no heat of the data source belongs to the class, the pilot
\* table holds one row for every pilot of the roster, in roster order.
C13_RosterFallback ==
    (pil.called /\ PilotTableReadable /\ ClassHeats = {}) => pil.out = db.pilots

\* no heat belongs to the class, runs of other classes exist, and the
\* table is the whole non-empty roster
C13_Witness ==
    /\ pil.called
    /\ ClassHeats = {}
    /\ \E r \in RaceIds : races[r].present
    /\ Len(pil.out) = 3
    /\ pil.out = db.pilots

\* the run has a pilot, its laps are read and not empty, and the race its
\* laps carry is found and was run in a heat of the class
RunInClass(run) ==
    /\ run.pilot_id # 0
    /\ run.laps # <<>>
    /\ FaultAt("pilot", "laps", run.id, 0) \notin pil.faults
    /\ FaultAt("pilot", "race", run.id, 0) \notin pil.faults
    /\ races[run.race_id].present
    /\ races[run.race_id].heat_id \in ClassHeats

\* C14: when at least one heat belongs to the class, the pilot table holds
\* exactly the roster pilots with a non-zero id that a pilot-run resolved to
\* a heat of the class refers to, each of them once.
C14_PilotsOfClass ==
    (pil.called /\ PilotTableReadable /\ ClassHeats # {})
        => /\ PilotTable =
                 {db.pilots[k] : k \in 1..Len(db.pilots)}
                 \cap {db.pilotruns[i].pilot_id :
                          i \in {j \in 1..Len(db.pilotruns) : RunInClass(db.pilotruns[j])}}
           /\ Cardinality(PilotTable) = Len(pil.out)
           /\ 0 \notin PilotTable

\* pilot 1 flew twice in the class, pilot 2 is on the roster but flew in
\* no heat of the class, pilot 3 flew in the class: the table is 1 and 3
C14_Witness ==
    /\ pil.called
    /\ pil.faults = {}
    /\ ClassHeats # {}
    /\ db.pilots = <<1, 2, 3>>
    /\ db.pilotruns[1].pilot_id = 1 /\ RunInClass(db.pilotruns[1])
    /\ db.pilotruns[2].pilot_id = 1 /\ RunInClass(db.pilotruns[2])
    /\ pil.out = <<1, 3>>

----------------------------------------------------------------------------
(* The chart generate_plot returns.                                        *)

\* the names generate_plot knows when it composes the title
KnownFormatName ==
    IF gen.raceclass.format_id = "format"
       /\ FaultAt("gen", "raceformat_by_id", 0, 0) \notin gen.faults
    THEN db.raceformat.name ELSE ""
KnownClassName == gen.raceclass.name
KnownEventName ==
    IF FaultAt("gen", "option", 0, 0) \in gen.faults THEN "Event" ELSE db.event_name

\* format name + class name, then class name, then format name, then the
\* event name
NamesByPrecedence ==
    IF KnownFormatName # "" /\ KnownClassName # "" THEN <<KnownFormatName, KnownClassName>>
    ELSE IF KnownClassName # "" THEN <<KnownClassName>>
    ELSE IF KnownFormatName # "" THEN <<KnownFormatName>>
    ELSE <<KnownEventName>>

\* C15: the title of every chart shows the names by the precedence format
\* name + class name, class name, format name, event name; for win
\* condition 4 it shows the same names and "{N} Consecutive Laps" as well,
\* for every other win condition no such part.
C15_TitlePrecedence ==
    (gen.called /\ gen.out.doc = "Chart")
        => /\ gen.out.chart.title.names = NamesByPrecedence
           /\ gen.out.chart.title.consecutive =
                  IF gen.out.win_condition = 4 THEN gen.out.base ELSE 0

\* the records of the lap table generate_plot built
GenLapRows == {gen.out.lap_df[k] : k \in 1..Len(gen.out.lap_df)}

\* C16: in the lap table and the chart, under every win condition, a record
\* with lap index 0 has neither the best-consecutive nor the fastest-lap
\* flag, and a pilot's personal best is the least time of that pilot's
\* records with lap index > 0 (a pilot with no such record has none).
C16_HoleshotExcluded ==
    (gen.called /\ gen.out.laps = "rows")
        => /\ \A r \in GenLapRows : r.lap = 0 => (r.best_q = 0 /\ r.fastest = 0)
           /\ gen.out.doc = "Chart" =>
                 /\ \A b \in gen.out.chart.best :
                       /\ \E r \in GenLapRows :
                             r.pilot_id = b.pilot_id /\ r.lap > 0 /\ r.time = b.time
                       /\ \A r \in GenLapRows :
                             (r.pilot_id = b.pilot_id /\ r.lap > 0) => b.time <= r.time
                 /\ \A r \in GenLapRows :
                       r.lap > 0 => \E b \in gen.out.chart.best : b.pilot_id = r.pilot_id

\* a chart for win condition 4 and a window reported to start at lap 0,
\* where the holeshot of pilot 1 is faster than every later lap of pilot 1
C16_Witness ==
    /\ gen.called
    /\ gen.out.doc = "Chart"
    /\ gen.out.win_condition = 4
    /\ \E k \in 1..Len(db.by_consecutives) :
          db.by_consecutives[k].pilot_id = 1 /\ db.by_consecutives[k].consecutive_lap_start = 0
    /\ \E r \in GenLapRows : r.pilot_id = 1 /\ r.lap > 0 /\ r.best_q = 1
    /\ \E r \in GenLapRows, b \in gen.out.chart.best :
          r.pilot_id = 1 /\ b.pilot_id = 1 /\ r.lap = 0 /\ r.time < b.time

\* C17: whenever generate_plot reaches lap extraction with win condition 4
\* and a consecutive table that is not empty, the table is named with the
\* window size handed to lap extraction and plot assembly, and the chart
\* is returned.
C17_ColumnsMatchBase ==
    (gen.called /\ gen.out.laps = "rows" /\ gen.out.win_condition = 4
        /\ gen.out.consecutive_df.present /\ gen.out.consecutive_df.rows # <<>>
        /\ FaultAt("plot", "option", 0, 0) \notin gen.faults)
        => /\ gen.out.consecutive_df.base = gen.out.base
           /\ gen.out.doc = "Chart"

----------------------------------------------------------------------------
(* The consecutive window and the rounds in the lap table.                 *)

\* C18: with win condition 4 the records of the window round that are
\* flagged best-consecutive are exactly those with lap index in [1, 1+N)
\* when the reported start is 0 and in [S, S+N) when the reported start is
\* S >= 1; with any other win condition no record is flagged.
C18_WindowRemap ==
    lap.called =>
        \A r \in LapRowsOut :
            LET w == WindowOf(r.pilot_id)
            IN  /\ lap.win_condition # 4 => r.best_q = 0
                /\ (lap.win_condition = 4 /\ r.round = w.round /\ w.lap = 0)
                       => (r.best_q = 1 <=> (1 <= r.lap /\ r.lap < 1 + w.nlaps))
                /\ (lap.win_condition = 4 /\ r.round = w.round /\ w.lap >= 1)
                       => (r.best_q = 1 <=> (w.lap <= r.lap /\ r.lap < w.lap + w.nlaps))

\* a window reported to start at lap 1 with size 1 in round 1: of the laps
\* 0, 1 and 2 of pilot 1 in that round only lap 1 is flagged
C18_Witness ==
    /\ lap.called /\ lap.win_condition = 4
    /\ WindowOf(1).lap = 1 /\ WindowOf(1).nlaps = 1 /\ WindowOf(1).round = 1
    /\ \E r \in LapRowsOut : r.pilot_id = 1 /\ r.round = 1 /\ r.lap = 0 /\ r.best_q = 0
    /\ \E r \in LapRowsOut : r.pilot_id = 1 /\ r.round = 1 /\ r.lap = 1 /\ r.best_q = 1
    /\ \E r \in LapRowsOut : r.pilot_id = 1 /\ r.round = 1 /\ r.lap = 2 /\ r.best_q = 0

\* the cache holds, for every race in it, the heat the data source records
CacheTruthful ==
    \A k \in 1..Len(race_cache) :
        race_cache[k].heat_id = RaceHeat(races[race_cache[k].race_id])

\* no race lookup of the pass that scopes the runs raised in the latest call
ScopingResolved ==
    \A f \in lap.faults : ~(f.phase = "lap" /\ f.site = "race")

\* the round the timing metadata of the run resolves to in the latest call
\* (0: none)
ResolvedRound(run) ==
    IF FaultAt("loop", "round", run.id, 0) \in lap.faults THEN 0
    ELSE IF races[run.race_id].present THEN races[run.race_id].round
    ELSE 0

\* the run has a pilot and laps, and the race of its laps was run in a heat
\* of the class
RunOfClass(run) ==
    /\ run.pilot_id # 0
    /\ run.laps # <<>>
    /\ FaultAt("lap", "laps", run.id, 0) \notin lap.faults
    /\ races[run.race_id].present
    /\ db.heats[races[run.race_id].heat_id] = lap.raceclass.class_id

\* the 1-indexed position of the run among the runs of its pilot in the
\* heats of the class, in arrival order
PositionOf(run) ==
    Cardinality({j \in 1..Len(db.pilotruns) :
                    /\ j <= run.id
                    /\ db.pilotruns[j].pilot_id = run.pilot_id
                    /\ RunOfClass(db.pilotruns[j])})

----------------------------------------------------------------------------
(* The size of the heat-resolution cache.                                  *)

\* C20: after any sequence of heat lookups - the race lookup succeeding,
\* finding nothing or raising - the cache holds at most its capacity of
\* entries and at most one entry per race id.
C20_CacheBounded ==
    /\ Len(race_cache) <= MaxCacheSize
    /\ Cardinality(CacheKeys(race_cache)) = Len(race_cache)

\* the cache is full, an entry was put out to admit another, and the
\* latest lookup was a miss whose race lookup raised
C20_Witness ==
    /\ Len(race_cache) = MaxCacheSize
    /\ evicted # {}
    /\ last.queried /\ last.failed
    /\ \E r \in RaceIds : ~races[r].present /\ r \in CacheKeys(race_cache)

----------------------------------------------------------------------------
(* The heats, the flags and the lap indices of the lap table.              *)

\* C25: every record of the lap table _extract_lap_data returns has a heat
\* id that is a heat of the requested class, also when the cache puts
\* entries out or a race lookup fails between the pass that scopes the runs
\* and the pass that extracts the laps.
C25_HeatOfClass ==
    lap.called =>
        \A r \in LapRowsOut :
            r.heat \in {h \in DOMAIN db.heats : db.heats[h] = lap.raceclass.class_id}

\* C26: with win condition 4, for each pilot the records flagged
\* best-consecutive belong to one pilot-run and are at most as many as the
\* window size of the pilot, also when several runs of the pilot resolve to
\* the same round.
C26_OneRunFlagged ==
    (lap.called /\ lap.win_condition = 4) =>
        \A p \in {r.pilot_id : r \in LapRowsOut} :
            LET flagged == {r \in LapRowsOut : r.pilot_id = p /\ r.best_q = 1}
            IN  /\ Cardinality({r.run : r \in flagged}) <= 1
                /\ Cardinality(flagged) <= WindowOf(p).nlaps

\* C27: within each pilot-run the lap indices of the records are 0, 1, 2,
\* ... without a gap: the first lap that is not deleted has index 0.
C27_LapIndicesFromZero ==
    lap.called =>
        \A id \in {r.run : r \in LapRowsOut} :
            LET mine == {r \in LapRowsOut : r.run = id}
            IN  {r.lap : r \in mine} = 0..(Cardinality(mine) - 1)

\* C30: no lap record has round 0, and a pilot whose window in the
\* consecutive table has round 0 has no record flagged best-consecutive.
C30_NoRoundZero ==
    lap.called =>
        \A r \in LapRowsOut :
            /\ r.round # 0
            /\ WindowOf(r.pilot_id).round = 0 => r.best_q = 0

\* win condition 4; the window of pilot 1 has round 0 and a size of at
\* least one lap, run 1 resolves to no round and takes position 1, and its
\* lap inside the window is not flagged
C30_Witness ==
    /\ lap.called /\ lap.win_condition = 4
    /\ WindowOf(1).round = 0 /\ WindowOf(1).nlaps >= 1 /\ WindowOf(1).lap = 1
    /\ races[1].round = 0
    /\ \E r \in LapRowsOut :
          r.run = 1 /\ r.pilot_id = 1 /\ r.round = 1 /\ r.lap = 1 /\ r.best_q = 0

----------------------------------------------------------------------------
(* A class without heats.                                                  *)

\* no heat of the data source belongs to the class generate_plot is asked
\* for
GenNoHeatOfClass ==
    /\ gen.raceclass.id = "valid"
    /\ \A h \in DOMAIN db.heats : db.heats[h] # gen.raceclass.class_id

\* C29: when no heat of the data source belongs to the requested class,
\* generate_plot returns no chart: the lap table never has a row, and when
\* the roster gave the pilot table its rows and lap extraction ran, the
\* document is the no-lap-data message; otherwise it is another NoData
\* message or the error message.
C29_NoHeatNoChart ==
    (gen.called /\ GenNoHeatOfClass)
        => /\ gen.out.doc \in NoDataDocuments \cup {"Error"}
           /\ gen.out.laps # "rows"
           /\ gen.out.laps = "empty" => gen.out.doc = "NoLaps"

\* no heat of the class, a roster of two pilots that became the pilot
\* table, a run of roster pilot 2 with laps in a saved race, no access
\* raised: the lap table is empty and the no-lap-data message is returned
C29_Witness ==
    /\ gen.called /\ GenNoHeatOfClass
    /\ gen.faults = {}
    /\ db.pilots = <<1, 2>>
    /\ \E i \in 1..Len(db.pilotruns) :
          /\ db.pilotruns[i].pilot_id = 2 /\ db.pilotruns[i].laps # <<>>
          /\ races[db.pilotruns[i].race_id].present
    /\ gen.out.pilot = "rows"
    /\ gen.out.laps = "empty"
    /\ gen.out.doc = "NoLaps"

----------------------------------------------------------------------------
(* Specification SpecPlot: _generate_plot on the tables the extractions    *)
(* build for class 1 from the data sources below, on a fresh cache and     *)
(* without a raising access.  Two families of inputs are drawn:            *)
(*   "order"  three pilots with one run each in heat 1; the roster, the    *)
(*            laps of the runs, the win condition and, for win condition   *)
(*            4, the class results and their entries vary                  *)
(*   "heats"  pilot 1 flies one run in each of 1..MaxPlotHeats heats of    *)
(*            the class; the win condition is 1 or 2                       *)

\* the largest number of heats of the class in the "heats" family
MaxPlotHeats == 11

\* the window size the tables of the "order" family are named with
PlotBase == 2

\* an entry of the class results with a window of n laps and best time t
TimedEntry(pilot_id, n, t) ==
    [pilot_id |-> pilot_id, laps |-> n, consecutives |-> t,
     consecutives_source |-> Source(TRUE, "int", 1, <<>>),
     consecutive_lap_start |-> 1, consecutives_base |-> n]

\* the windows an entry can report: its size and its best time
Windows == {<<0, 0>>, <<1, 1>>, <<1, 2>>, <<PlotBase, 1>>, <<PlotBase, 2>>}

\* the laps a run can have: the holeshot and up to two laps after it
RunLaps ==
    {<<Lap(0, 1)>>, <<Lap(0, 1), Lap(0, 1)>>, <<Lap(0, 1), Lap(0, 2)>>,
     <<Lap(0, 2), Lap(0, 2), Lap(0, 1)>>}

\* the arguments of a call, as generate_plot hands them over (lines
\* 1040-1097): the pilot table, the lap table extracted after it, the win
\* condition, the consecutive table and the window size
PlotCall(scenario, class_id, d, race_by_id, win_condition, consecutive_df, consecutive_laps_base) ==
    LET p == ExtractPilotData(class_id, d, race_by_id, <<>>, {})
        l == ExtractLapData(class_id, win_condition, p.pilot_df, consecutive_df, d,
                            race_by_id, p.cache, {})
    IN  [scenario |-> scenario, pilot_df |-> p.pilot_df, lap_df |-> l.lap_df,
         win_condition |-> win_condition, consecutive_df |-> consecutive_df,
         consecutive_laps_base |-> consecutive_laps_base,
         faults |-> {}, called |-> FALSE, raised |-> FALSE, fig |-> NoFigure]

PlotCommonInit ==
    /\ race_cache = <<>>
    /\ last = NoLookup
    /\ recency = <<>>
    /\ evicted = {}
    /\ win = NoCall
    /\ lap = NoCall
    /\ gen = NoCall
    /\ cons = NoCall
    /\ pil = NoCall

InitPlotOrder ==
    /\ PlotCommonInit
    /\ races = [r \in RaceIds |->
                   IF r <= 3 THEN [present |-> TRUE, heat_id |-> 1, round |-> 1] ELSE NoRace]
    /\ \E roster \in {<<1, 2, 3>>, <<1, 2>>}, laps1 \in RunLaps, laps2 \in RunLaps,
          laps3 \in {<<Lap(0, 1)>>, <<Lap(0, 1), Lap(0, 1)>>},
          w1 \in Windows, w2 \in Windows, w3 \in Windows, listed \in {0, 2, 3} :
         LET entries == <<TimedEntry(3, w3[1], w3[2]), TimedEntry(1, w1[1], w1[2]),
                          TimedEntry(2, w2[1], w2[2])>>
         IN  /\ listed = 0 => (w1 = <<0, 0>> /\ w2 = <<0, 0>> /\ w3 = <<0, 0>>)
             /\ db = [heats |-> HeatClass, pilots |-> roster,
                      pilotruns |-> <<PilotRun(1, 1, laps1), PilotRun(2, 2, laps2),
                                      PilotRun(3, 3, laps3)>>,
                      results |-> IF listed = 0 THEN "nothing" ELSE "by_consecutives",
                      by_consecutives |-> SelectSeq(entries, LAMBDA e : e.pilot_id <= listed)]
    /\ \E win_condition \in 0..MaxWinValue :
         /\ win_condition # 4 => db.results = "nothing"
         /\ plot = PlotCall("order", 1, db, races, win_condition,
                            IF win_condition = 4 /\ db.results # "nothing"
                            THEN ExtractConsecutiveData(db, PlotBase) ELSE NoConsecutiveDf,
                            PlotBase)

InitPlotHeats ==
    /\ PlotCommonInit
    /\ \E n \in 1..MaxPlotHeats :
         /\ races = [r \in 1..n |-> [present |-> TRUE, heat_id |-> r, round |-> 1]]
         /\ db = [heats |-> [h \in 1..n |-> 1], pilots |-> <<1, 2>>,
                  pilotruns |-> [i \in 1..n |->
                                    PilotRun(i, 1, <<Lap(0, 1), Lap(0, 1), Lap(0, 2)>>)],
                  results |-> "nothing", by_consecutives |-> <<>>]
    /\ \E win_condition \in {1, 2} :
         plot = PlotCall("heats", 1, db, races, win_condition, NoConsecutiveDf, DefaultBase)

InitPlot == InitPlotOrder \/ InitPlotHeats

\* the option read of line 888 may raise
PlotFaults == {{}, {FaultAt("plot", "option", 0, 0)}}

\* one call of _generate_plot
CallGeneratePlotFigure ==
    /\ \E faults \in PlotFaults,
          pilot_order \in PilotOrders(plot.lap_df, plot.win_condition, plot.consecutive_df,
                                      plot.consecutive_laps_base) :
         LET raised == GeneratePlot(plot.pilot_df, plot.lap_df, plot.win_condition,
                                    plot.consecutive_df, plot.consecutive_laps_base,
                                    faults).raised
         IN  plot' = [plot EXCEPT !.faults = faults, !.called = TRUE, !.raised = raised,
                                  !.fig = IF raised THEN NoFigure
                                          ELSE Figure(plot.pilot_df, plot.lap_df,
                                                      plot.win_condition,
                                                      plot.consecutive_df, pilot_order)]
    /\ UNCHANGED <<races, db, race_cache, last, recency, evicted, win, lap, gen, cons, pil>>

NextPlot == CallGeneratePlotFigure

SpecPlot == InitPlot /\ [][NextPlot]_vars

\* the latest call drew a figure
PlotDrawn == plot.called /\ ~plot.raised

\* the records of the lap table the figure is drawn from
PlotLapRows == Range(plot.lap_df)

\* the row of the consecutive table for a pilot (one per pilot here)
PlotWindowOf(pilot_id) ==
    CHOOSE r \in Range(plot.consecutive_df.rows) : r.pilot_id = pilot_id

PlotBestLap(pilot_id) ==
    SetMin({r.time : r \in {x \in PlotLapRows : x.pilot_id = pilot_id /\ x.lap > 0}})

\* C22: for every win condition other than 4, and for 4 without a
\* consecutive table, pilot_order holds each pilot that has a record with
\* lap index > 0 once, ascending by the least time of the pilot over those
\* records, and the axis lists the pilots in the reverse of this order.
C22_BestLapOrder ==
    (PlotDrawn /\ ~(plot.win_condition = 4 /\ plot.consecutive_df.rows # <<>>)) =>
        LET order == plot.fig.pilot_order
        IN  /\ Range(order) = {r.pilot_id : r \in {x \in PlotLapRows : x.lap > 0}}
            /\ Cardinality(Range(order)) = Len(order)
            /\ \A i \in 1..Len(order), j \in 1..Len(order) :
                  i < j => PlotBestLap(order[i]) <= PlotBestLap(order[j])
            /\ plot.fig.custom_ytics = Reverse(order)

\* a win condition other than 4; pilot 2 has the better best lap and is
\* first in the order, pilot 1 is last; the axis begins with pilot 1 and
\* ends with pilot 2
C22_Witness ==
    /\ PlotDrawn /\ plot.win_condition # 4
    /\ Len(plot.fig.pilot_order) >= 2
    /\ plot.fig.pilot_order[1] = 2
    /\ plot.fig.pilot_order[Len(plot.fig.pilot_order)] = 1
    /\ PlotBestLap(2) < PlotBestLap(1)
    /\ plot.fig.custom_ytics[1] = 1
    /\ plot.fig.custom_ytics[Len(plot.fig.custom_ytics)] = 2

\* the traces of the figure besides the box traces and the holeshot markers
PlotExtras ==
    {plot.fig.traces[k] :
        k \in {j \in 1..Len(plot.fig.traces) :
                  plot.fig.traces[j].kind \notin {"box", "holeshot"}}}

\* the pilots the figure has traces for
PlotDrawnPilots == {t.pilot_id : t \in Range(plot.fig.traces)}

\* C23: the extras of a figure follow from the win condition: for 1 and 2
\* only traces that join the laps of one heat, one for each pilot and heat
\* with more than one lap after the holeshot; for 3 only the fastest-lap
\* markers, one trace for each pilot with a flagged lap; for 4 only one
\* trace for each pilot with laps flagged best-consecutive, over exactly
\* those laps by ascending lap index; for every other win condition none.
C23_ExtrasByWinCondition ==
    PlotDrawn =>
        LET wc == plot.win_condition
            laps_of(q) == {r \in PlotLapRows : r.pilot_id = q}
            count(kind, q, h) ==
                Cardinality({k \in 1..Len(plot.fig.traces) :
                                /\ plot.fig.traces[k].kind = kind
                                /\ plot.fig.traces[k].pilot_id = q
                                /\ plot.fig.traces[k].heat = h})
        IN  /\ wc \in {1, 2} =>
                  /\ \A t \in PlotExtras :
                        /\ t.kind = "heat"
                        /\ t.rows = {r \in laps_of(t.pilot_id) : r.heat = t.heat /\ r.lap > 0}
                  /\ \A q \in PlotDrawnPilots, h \in {r.heat : r \in PlotLapRows} :
                        count("heat", q, h) =
                            IF Cardinality({r \in laps_of(q) : r.heat = h /\ r.lap > 0}) > 1
                            THEN 1 ELSE 0
            /\ wc = 3 =>
                  /\ \A t \in PlotExtras :
                        /\ t.kind = "fastest"
                        /\ t.rows = {r \in laps_of(t.pilot_id) : r.fastest = 1 /\ r.lap > 0}
                  /\ \A q \in PlotDrawnPilots :
                        count("fastest", q, 0) =
                            IF \E r \in laps_of(q) : r.fastest = 1 /\ r.lap > 0 THEN 1 ELSE 0
            /\ wc = 4 =>
                  /\ \A t \in PlotExtras :
                        /\ t.kind = "best_q"
                        /\ t.rows = {r \in laps_of(t.pilot_id) : r.best_q = 1}
                        /\ \A i \in 1..Len(t.laps), j \in 1..Len(t.laps) :
                              i < j => t.laps[i] < t.laps[j]
                        /\ Range(t.laps) = {r.lap : r \in t.rows}
                  /\ \A q \in PlotDrawnPilots :
                        count("best_q", q, 0) =
                            IF \E r \in laps_of(q) : r.best_q = 1 THEN 1 ELSE 0
            /\ wc \notin {1, 2, 3, 4} => PlotExtras = {}

\* win condition 4: pilot 1 has the laps 1 and 2 flagged and one trace that
\* joins them in this order; pilot 3 has a box trace and no extra
C23_Witness ==
    /\ PlotDrawn /\ plot.win_condition = 4
    /\ \E t \in PlotExtras : t.pilot_id = 1 /\ t.kind = "best_q" /\ t.laps = <<1, 2>>
    /\ \E t \in Range(plot.fig.traces) : t.pilot_id = 3 /\ t.kind = "box"
    /\ \A t \in PlotExtras : t.pilot_id # 3

\* C24: for win conditions 1 and 2, two different heats of the lap table
\* have different trace colours, however many heats there are.
C24_HeatColoursDistinct ==
    (PlotDrawn /\ plot.win_condition \in {1, 2}) =>
        \A h1 \in DOMAIN plot.fig.heat_colors, h2 \in DOMAIN plot.fig.heat_colors :
            h1 # h2 => plot.fig.heat_colors[h1] # plot.fig.heat_colors[h2]

\* C28: under every win condition, every pilot with a record in the lap
\* table is once on the axis and has a box trace or a holeshot trace.
C28_EveryPilotDrawn ==
    PlotDrawn =>
        \A q \in {r.pilot_id : r \in PlotLapRows} :
            /\ Cardinality({k \in 1..Len(plot.fig.custom_ytics) :
                                plot.fig.custom_ytics[k] = q}) = 1
            /\ \E t \in Range(plot.fig.traces) :
                  t.pilot_id = q /\ t.kind \in {"box", "holeshot"}

====
